---- MODULE Spec2Model ----
(***************************************************************************)
(* ChromaBags colour engine (src/modules/modcomcolo.py): ColorRGB and the  *)
(* scheme generators of CombinacionColoresManager.                         *)
(*                                                                         *)
(* Python floats are IEEE-754 binary64.  The colour conversions truncate   *)
(* (int(c * 255)), so a result that is mathematically an integer k comes   *)
(* out as k or k-1 depending on the last bit of the float computation.     *)
(* The arithmetic is therefore modelled bit for bit: a float is a sign, a  *)
(* 53-bit mantissa kept in two limbs (h * 2^27 + l) and an exponent, and   *)
(* + - * / round to nearest, ties to even, as the hardware does.           *)
(*                                                                         *)
(* Intermediate values are handed from one operator to the next as         *)
(* arguments, the way the source binds them to local variables.            *)
(***************************************************************************)
EXTENDS Integers, Naturals, Sequences, FiniteSets, TLC

----------------------------------------------------------------------------
(* binary64 arithmetic *)

Limb == 2^27

FZero == [s |-> 0, h |-> 0, l |-> 0, e |-> 0]

FIsZero(a) == a.h = 0

(* float literals of the source and of colorsys, as the doubles the parser
   produces for them (mantissa h * 2^27 + l, exponent e) *)
F0_0      == FZero
F1_0      == [s |-> 0, h |-> 33554432, l |-> 0, e |-> -52]
F2_0      == [s |-> 0, h |-> 33554432, l |-> 0, e |-> -51]
F4_0      == [s |-> 0, h |-> 33554432, l |-> 0, e |-> -50]
F6_0      == [s |-> 0, h |-> 50331648, l |-> 0, e |-> -50]
F255_0    == [s |-> 0, h |-> 66846720, l |-> 0, e |-> -45]
\* 0.5 = 0x1.0000000000000p-1
F0_5      == [s |-> 0, h |-> 33554432, l |-> 0, e |-> -53]
\* 0.1 = 0x1.999999999999ap-4
F0_1      == [s |-> 0, h |-> 53687091, l |-> 26843546, e |-> -56]
\* 0.05 = 0x1.999999999999ap-5
F0_05     == [s |-> 0, h |-> 53687091, l |-> 26843546, e |-> -57]
\* 0.2 = 0x1.999999999999ap-3
F0_2      == [s |-> 0, h |-> 53687091, l |-> 26843546, e |-> -55]
\* 0.3 = 0x1.3333333333333p-2
F0_3      == [s |-> 0, h |-> 40265318, l |-> 53687091, e |-> -54]
\* 0.4 = 0x1.999999999999ap-2
F0_4      == [s |-> 0, h |-> 53687091, l |-> 26843546, e |-> -54]
\* 0.7 = 0x1.6666666666666p-1
F0_7      == [s |-> 0, h |-> 46976204, l |-> 107374182, e |-> -53]
\* 12.92 = 0x1.9d70a3d70a3d7p+3
F12_92    == [s |-> 0, h |-> 54190407, l |-> 91268055, e |-> -49]
\* 0.03928 = 0x1.41c8216c61523p-5
F0_03928  == [s |-> 0, h |-> 42176578, l |-> 113644835, e |-> -57]
\* 0.2126 = 0x1.b367a0f9096bcp-3
F0_2126   == [s |-> 0, h |-> 57069377, l |-> 126916284, e |-> -55]
\* 0.7152 = 0x1.6e2eb1c432ca5p-1
F0_7152   == [s |-> 0, h |-> 47996259, l |-> 71511205, e |-> -53]
\* 0.0722 = 0x1.27bb2fec56d5dp-4
F0_0722   == [s |-> 0, h |-> 38762079, l |-> 113601885, e |-> -56]
\* 0.299 = 0x1.322d0e5604189p-2
F0_299    == [s |-> 0, h |-> 40131100, l |-> 90194313, e |-> -54]
\* 0.587 = 0x1.2c8b439581062p-1
F0_587    == [s |-> 0, h |-> 39392903, l |-> 22548578, e |-> -53]
\* 0.114 = 0x1.d2f1a9fbe76c9p-4
F0_114    == [s |-> 0, h |-> 61203283, l |-> 129922761, e |-> -56]
\* 127.5 = 0x1.fe00000000000p+6
F127_5    == [s |-> 0, h |-> 66846720, l |-> 0, e |-> -46]

(* colorsys module constants: 1.0/3.0, 1.0/6.0, 2.0/3.0 *)
ONE_THIRD == [s |-> 0, h |-> 44739242, l |-> 89478485, e |-> -54]
ONE_SIXTH == [s |-> 0, h |-> 44739242, l |-> 89478485, e |-> -55]
TWO_THIRD == [s |-> 0, h |-> 44739242, l |-> 89478485, e |-> -53]

RECURSIVE BitLen(_)
BitLen(n) == IF n = 0 THEN 0 ELSE 1 + BitLen(n \div 2)

(* l with the sticky bit st or-ed into its lowest bit *)
Sticky(l, st) == IF st /\ l % 2 = 0 THEN l + 1 ELSE l

(* (h, l) shifted right by d bits; the bits shifted out are or-ed into the
   lowest bit of the result *)
ShiftRightSticky(h, l, d) ==
  IF d = 0 THEN <<h, l>>
  ELSE IF d < 27 THEN
    <<h \div 2^d,
      Sticky((l \div 2^d) + (h % 2^d) * 2^(27 - d), (l % 2^d) # 0)>>
  ELSE IF d < 58 THEN
    <<(h \div 2^(d - 27)) \div Limb,
      Sticky((h \div 2^(d - 27)) % Limb, (h % 2^(d - 27)) # 0 \/ l # 0)>>
  ELSE <<0, IF h # 0 \/ l # 0 THEN 1 ELSE 0>>

(* the 53-bit quotient (qh, ql) of a longer mantissa, rounded to nearest,
   ties to even: rem is what was shifted out and half the weight of one
   half unit in the last place *)
FRoundUp(s, qh, ql, e, rem, half) ==
  IF rem > half \/ (rem = half /\ ql % 2 = 1) THEN
    IF ql + 1 < Limb THEN [s |-> s, h |-> qh, l |-> ql + 1, e |-> e]
    ELSE IF qh + 1 < 2^26 THEN [s |-> s, h |-> qh + 1, l |-> 0, e |-> e]
    ELSE [s |-> s, h |-> 2^25, l |-> 0, e |-> e + 1]
  ELSE [s |-> s, h |-> qh, l |-> ql, e |-> e]

(* FRound for a non-zero mantissa of n bits *)
FRoundBits(s, h, l, e, n) ==
  IF n <= 26 THEN [s |-> s, h |-> l * 2^(26 - n), l |-> 0, e |-> e + n - 53]
  ELSE IF n <= 53 THEN
    [s |-> s, h |-> h * 2^(53 - n) + l \div 2^(n - 26),
     l |-> (l % 2^(n - 26)) * 2^(53 - n), e |-> e + n - 53]
  ELSE
    FRoundUp(s, h \div 2^(n - 53),
             (l \div 2^(n - 53)) + (h % 2^(n - 53)) * 2^(80 - n),
             e + n - 53, l % 2^(n - 53), 2^(n - 54))

(* The float nearest to (-1)^s * (h * 2^27 + l) * 2^e, ties to even.  When
   bits were lost before the call they are folded into the lowest bit of l,
   and the value then has at least 55 bits. *)
FRound(s, h, l, e) ==
  IF h = 0 /\ l = 0 THEN FZero
  ELSE FRoundBits(s, h, l, e, IF h > 0 THEN 27 + BitLen(h) ELSE BitLen(l))

FNeg(a) == IF FIsZero(a) THEN a ELSE [a EXCEPT !.s = 1 - a.s]

(* |a| < |b| for non-zero a, b *)
MagLt(a, b) ==
  \/ a.e < b.e
  \/ a.e = b.e /\ (a.h < b.h \/ (a.h = b.h /\ a.l < b.l))

FLt(a, b) ==
  IF FIsZero(a) THEN (~FIsZero(b) /\ b.s = 0)
  ELSE IF FIsZero(b) THEN a.s = 1
  ELSE IF a.s # b.s THEN a.s = 1
  ELSE IF a.s = 0 THEN MagLt(a, b) ELSE MagLt(b, a)

FLe(a, b) == ~FLt(b, a)

(* Python's max(a, b, c) and min(a, b, c): the first of the largest/smallest *)
FMax3(a, b, c) ==
  IF FLt(a, b) THEN (IF FLt(b, c) THEN c ELSE b)
  ELSE (IF FLt(a, c) THEN c ELSE a)

FMin3(a, b, c) ==
  IF FLt(b, a) THEN (IF FLt(c, b) THEN c ELSE b)
  ELSE (IF FLt(c, a) THEN c ELSE a)

(* the sum of mantissas aligned at exponent e, three guard bits kept:
   (xh, xl) is the larger in magnitude, ys the smaller one shifted *)
FAddAligned(s, same, e, xh, xl, ys) ==
  FRound(s,
         IF same THEN xh + ys[1] + (xl + ys[2]) \div Limb
         ELSE xh - ys[1] - (IF xl < ys[2] THEN 1 ELSE 0),
         IF same THEN (xl + ys[2]) % Limb
         ELSE xl - ys[2] + (IF xl < ys[2] THEN Limb ELSE 0),
         e)

(* x + y for non-zero x, y with |x| >= |y| *)
FAddOrdered(x, y) ==
  FAddAligned(x.s, x.s = y.s, x.e - 3,
              x.h * 8 + x.l \div 2^24, (x.l % 2^24) * 8,
              ShiftRightSticky(y.h * 8 + y.l \div 2^24, (y.l % 2^24) * 8,
                               x.e - y.e))

FAdd(a, b) ==
  IF FIsZero(a) THEN b
  ELSE IF FIsZero(b) THEN a
  ELSE FAddOrdered(IF MagLt(a, b) THEN b ELSE a,
                   IF MagLt(a, b) THEN a ELSE b)

FSub(a, b) == FAdd(a, FNeg(b))

(* the mantissa of a in four 14-bit limbs, lowest first *)
Limbs14(a) ==
  <<a.l % 2^14, a.l \div 2^14 + (a.h % 2) * 2^13, (a.h \div 2) % 2^14,
    a.h \div 2^15>>

(* column sums of the schoolbook product of two four-limb numbers *)
Columns(x, y) ==
  <<x[1] * y[1],
    x[1] * y[2] + x[2] * y[1],
    x[1] * y[3] + x[2] * y[2] + x[3] * y[1],
    x[1] * y[4] + x[2] * y[3] + x[3] * y[2] + x[4] * y[1],
    x[2] * y[4] + x[3] * y[3] + x[4] * y[2],
    x[3] * y[4] + x[4] * y[3],
    x[4] * y[4]>>

(* carries propagated through the columns: the base-2^14 digits, lowest
   first, followed by the last carry *)
RECURSIVE Carry(_, _)
Carry(cols, c) ==
  IF cols = <<>> THEN <<c>>
  ELSE <<(Head(cols) + c) % 2^14>>
       \o Carry(Tail(cols), (Head(cols) + c) \div 2^14)

(* the 106-bit product p (eight digits) cut to its upper 62 bits, the rest
   folded into the sticky bit *)
FMulDigits(s, e, p) ==
  FRound(s, p[6] \div 2^7 + p[7] * 2^7 + p[8] * 2^21,
         Sticky(p[4] \div 2^8 + p[5] * 2^6 + (p[6] % 2^7) * 2^20,
                (p[4] % 2^8) # 0 \/ p[3] # 0 \/ p[2] # 0 \/ p[1] # 0),
         e)

FMul(a, b) ==
  IF FIsZero(a) \/ FIsZero(b) THEN FZero
  ELSE FMulDigits((a.s + b.s) % 2, a.e + b.e + 50,
                  Carry(Columns(Limbs14(a), Limbs14(b)), 0))

(* k steps of restoring division of the remainder (rh, rl) by (dh, dl):
   <<quotient bits appended to acc, remainder>> *)
RECURSIVE DivBits(_, _, _, _, _, _)
DivBits(rh, rl, dh, dl, k, acc) ==
  IF k = 0 THEN <<acc, rh, rl>>
  ELSE IF 2 * rh + (2 * rl) \div Limb > dh
          \/ (2 * rh + (2 * rl) \div Limb = dh /\ (2 * rl) % Limb >= dl)
    THEN DivBits(2 * rh + (2 * rl) \div Limb - dh
                   - (IF (2 * rl) % Limb < dl THEN 1 ELSE 0),
                 ((2 * rl) % Limb) - dl
                   + (IF (2 * rl) % Limb < dl THEN Limb ELSE 0),
                 dh, dl, k - 1, 2 * acc + 1)
  ELSE DivBits(2 * rh + (2 * rl) \div Limb, (2 * rl) % Limb, dh, dl, k - 1,
               2 * acc)

(* the leading quotient bit and the 27 bits after it *)
DivHigh(rh, rl, dh, dl) ==
  IF rh > dh \/ (rh = dh /\ rl >= dl)
  THEN DivBits(rh - dh - (IF rl < dl THEN 1 ELSE 0),
               rl - dl + (IF rl < dl THEN Limb ELSE 0), dh, dl, 27, 1)
  ELSE DivBits(rh, rl, dh, dl, 27, 0)

(* 56 quotient bits: q1 the upper 28, d2 the lower 28 and the remainder *)
FDivQuotient(s, e, q1, d2) ==
  FRound(s, q1 * 2 + d2[1] \div Limb,
         Sticky(d2[1] % Limb, d2[2] # 0 \/ d2[3] # 0), e)

FDivLow(s, e, b, d1) ==
  FDivQuotient(s, e, d1[1], DivBits(d1[2], d1[3], b.h, b.l, 28, 0))

FDiv(a, b) ==
  IF FIsZero(a) THEN FZero
  ELSE FDivLow((a.s + b.s) % 2, a.e - b.e - 55, b,
               DivHigh(a.h, a.l, b.h, b.l))

(* float(n) for an int n, |n| < 2^31: exact *)
FInt(n) ==
  FRound(IF n < 0 THEN 1 ELSE 0, (IF n < 0 THEN -n ELSE n) \div Limb,
         (IF n < 0 THEN -n ELSE n) % Limb, 0)

(* int(a): truncation towards zero; a is within the int range *)
FTrunc(a) ==
  IF FIsZero(a) \/ a.e <= -53 THEN 0
  ELSE IF a.e <= -27
    THEN (IF a.s = 1 THEN -(a.h \div 2^(-a.e - 27))
          ELSE a.h \div 2^(-a.e - 27))
  ELSE IF a.s = 1 THEN -(a.h * 2^(27 + a.e) + a.l \div 2^(-a.e))
  ELSE a.h * 2^(27 + a.e) + a.l \div 2^(-a.e)

(* fr is |fmod(a, 1.0)| and s the sign of a: float.__mod__ adds 1.0 to a
   negative non-zero fmod *)
FModSign(s, fr) ==
  IF s = 0 \/ FIsZero(fr) THEN fr ELSE FAdd(FNeg(fr), F1_0)

(* a % 1.0 *)
FMod1(a) ==
  IF FIsZero(a) \/ a.e >= 0 THEN FZero
  ELSE FModSign(a.s,
                IF a.e <= -53 THEN [a EXCEPT !.s = 0]
                ELSE IF a.e <= -27
                  THEN FRound(0, a.h % 2^(-a.e - 27), a.l, a.e)
                ELSE FRound(0, 0, a.l % 2^(-a.e), a.e))

----------------------------------------------------------------------------
(* Python strings are sequences of one-character strings *)

HexLower == <<"0", "1", "2", "3", "4", "5", "6", "7", "8", "9",
              "a", "b", "c", "d", "e", "f">>
HexUpper == <<"0", "1", "2", "3", "4", "5", "6", "7", "8", "9",
              "A", "B", "C", "D", "E", "F">>
(* U+0131 stands for the dotless i, a lowercase letter whose upper() is the
   ASCII I *)
LowerLetters ==
  <<"a", "b", "c", "d", "e", "f", "g", "h", "i", "j", "k", "l", "m",
    "n", "o", "p", "q", "r", "s", "t", "u", "v", "w", "x", "y", "z",
    "á", "ó", "U+0131">>
UpperLetters ==
  <<"A", "B", "C", "D", "E", "F", "G", "H", "I", "J", "K", "L", "M",
    "N", "O", "P", "Q", "R", "S", "T", "U", "V", "W", "X", "Y", "Z",
    "Á", "Ó", "I">>
Whitespace == {" ", "\t", "\n"}

IndexOf(tab, ch) ==
  IF \E i \in 1..Len(tab) : tab[i] = ch
  THEN CHOOSE i \in 1..Len(tab) : tab[i] = ch
  ELSE 0

(* str.upper(), character by character *)
CharUpper(ch) ==
  IF IndexOf(LowerLetters, ch) = 0 THEN ch
  ELSE UpperLetters[IndexOf(LowerLetters, ch)]

StrUpper(str) == [i \in 1..Len(str) |-> CharUpper(str[i])]

(* str.lstrip('#'): every leading '#' is removed, not only the first *)
RECURSIVE LStripHash(_)
LStripHash(str) ==
  IF Len(str) > 0 /\ Head(str) = "#" THEN LStripHash(Tail(str)) ELSE str

RECURSIVE LStripSpace(_)
LStripSpace(str) ==
  IF Len(str) > 0 /\ Head(str) \in Whitespace THEN LStripSpace(Tail(str))
  ELSE str

RECURSIVE RStripSpace(_)
RStripSpace(str) ==
  IF Len(str) > 0 /\ str[Len(str)] \in Whitespace
  THEN RStripSpace(SubSeq(str, 1, Len(str) - 1))
  ELSE str

(* value of a hexadecimal digit of either case, -1 for any other character *)
DigitValue(ch) ==
  IF IndexOf(HexLower, ch) > 0 THEN IndexOf(HexLower, ch) - 1
  ELSE IF IndexOf(HexUpper, ch) > 0 THEN IndexOf(HexUpper, ch) - 1
  ELSE -1

(* the digits part of an int literal: hex digits, single underscores allowed
   between digits only *)
RECURSIVE DigitsOk(_, _)
DigitsOk(str, afterDigit) ==
  IF Len(str) = 0 THEN afterDigit
  ELSE IF Head(str) = "_" THEN afterDigit /\ DigitsOk(Tail(str), FALSE)
  ELSE DigitValue(Head(str)) >= 0 /\ DigitsOk(Tail(str), TRUE)

RECURSIVE DigitsValue(_, _)
DigitsValue(str, acc) ==
  IF Len(str) = 0 THEN acc
  ELSE IF Head(str) = "_" THEN DigitsValue(Tail(str), acc)
  ELSE DigitsValue(Tail(str), 16 * acc + DigitValue(Head(str)))

(* int(str, 16), step by step: surrounding whitespace is dropped, then an
   optional sign, an optional 0x prefix (which an underscore may follow) and
   the digits.  [ok |-> FALSE] stands for ValueError. *)
IntDigits(neg, d) ==
  IF DigitsOk(d, FALSE)
  THEN [ok |-> TRUE,
        val |-> IF neg THEN -DigitsValue(d, 0) ELSE DigitsValue(d, 0)]
  ELSE [ok |-> FALSE, val |-> 0]

IntPrefixed(neg, w) ==
  IntDigits(neg, IF Len(w) > 0 /\ Head(w) = "_" THEN Tail(w) ELSE w)

IntUnsigned(neg, u) ==
  IF Len(u) >= 2 /\ u[1] = "0" /\ u[2] \in {"x", "X"}
  THEN IntPrefixed(neg, SubSeq(u, 3, Len(u)))
  ELSE IntDigits(neg, u)

IntSigned(t) ==
  IntUnsigned(Len(t) > 0 /\ Head(t) = "-",
              IF Len(t) > 0 /\ Head(t) \in {"+", "-"} THEN Tail(t) ELSE t)

PyInt16(str) == IntSigned(RStripSpace(LStripSpace(str)))

RECURSIVE HexDigits(_)
HexDigits(n) ==
  IF n < 16 THEN <<HexLower[n + 1]>>
  ELSE Append(HexDigits(n \div 16), HexLower[(n % 16) + 1])

Format02x_NoPad(n) ==
  IF n < 0 THEN <<"-">> \o HexDigits(-n) ELSE HexDigits(n)

(* format(n, "02x"): at least two characters, zero-padded on the left,
   the sign of a negative number counting as one of them *)
Format02x(n) ==
  IF n < 0 THEN <<"-">> \o HexDigits(-n)
  ELSE IF n < 16 THEN <<"0">> \o HexDigits(n)
  ELSE HexDigits(n)

----------------------------------------------------------------------------
(* results and exceptions *)

NoExc == [type |-> "", msg |-> ""]

Ok(v) == [ok |-> TRUE, val |-> v, exc |-> NoExc]

Raise(t, m) == [ok |-> FALSE, val |-> <<>>, exc |-> [type |-> t, msg |-> m]]

InvalidHexFormat == Raise("ValueError", "Formato hexadecimal inválido")

InvalidIntLiteral ==
  Raise("ValueError", "invalid literal for int() with base 16")

----------------------------------------------------------------------------
(* class ColorRGB *)

(* Clamp255 without the upper limit *)
Clamp255_NoUpper(x) == IF x < 0 THEN 0 ELSE x

Clamp255(x) == IF x < 0 THEN 0 ELSE IF x > 255 THEN 255 ELSE x

ColorRGB(r, g, b) == [r |-> Clamp255(r), g |-> Clamp255(g), b |-> Clamp255(b)]

(* r, g, b are the results of the three int(..., 16) calls *)
from_hex_channels(r, g, b) ==
  IF r.ok /\ g.ok /\ b.ok THEN Ok(ColorRGB(r.val, g.val, b.val))
  ELSE InvalidIntLiteral

(* hx is hex_color.lstrip('#') *)
from_hex_stripped(hx) ==
  IF Len(hx) # 6 THEN InvalidHexFormat
  ELSE from_hex_channels(PyInt16(SubSeq(hx, 1, 2)), PyInt16(SubSeq(hx, 3, 4)),
                         PyInt16(SubSeq(hx, 5, 6)))

from_hex(hex_color) == from_hex_stripped(LStripHash(hex_color))

(* to_hex without .upper() *)
to_hex_Lower(self) ==
  <<"#">> \o Format02x(self.r) \o Format02x(self.g) \o Format02x(self.b)

to_hex(self) ==
  StrUpper(<<"#">> \o Format02x(self.r) \o Format02x(self.g)
           \o Format02x(self.b))

(* colorsys.rgb_to_hsv / rgb_to_hls, the hue: h is picked by the channel
   that holds the maximum, then (h / 6.0) % 1.0 *)
rgb_hue_pick(r, g, maxc, rc, gc, bc) ==
  IF r = maxc THEN FSub(bc, gc)
  ELSE IF g = maxc THEN FSub(FAdd(F2_0, rc), bc)
  ELSE FSub(FAdd(F4_0, gc), rc)

rgb_hue(r, g, b, maxc, rangec) ==
  FMod1(FDiv(rgb_hue_pick(r, g, maxc, FDiv(FSub(maxc, r), rangec),
                          FDiv(FSub(maxc, g), rangec),
                          FDiv(FSub(maxc, b), rangec)), F6_0))

rgb_to_hsv_range(r, g, b, maxc, rangec) ==
  [h |-> rgb_hue(r, g, b, maxc, rangec), s |-> FDiv(rangec, maxc),
   v |-> maxc]

rgb_to_hsv_minmax(r, g, b, maxc, minc) ==
  IF minc = maxc THEN [h |-> F0_0, s |-> F0_0, v |-> maxc]
  ELSE rgb_to_hsv_range(r, g, b, maxc, FSub(maxc, minc))

rgb_to_hsv(r, g, b) ==
  rgb_to_hsv_minmax(r, g, b, FMax3(r, g, b), FMin3(r, g, b))

(* colorsys.hsv_to_rgb: i = int(h*6.0) % 6 selects the arrangement *)
hsv_to_rgb_pick(i, v, p, q, t) ==
  IF i = 0 THEN <<v, t, p>>
  ELSE IF i = 1 THEN <<q, v, p>>
  ELSE IF i = 2 THEN <<p, v, t>>
  ELSE IF i = 3 THEN <<p, q, v>>
  ELSE IF i = 4 THEN <<t, p, v>>
  ELSE <<v, p, q>>

hsv_to_rgb_pqt(i, f, s, v) ==
  hsv_to_rgb_pick(i % 6, v, FMul(v, FSub(F1_0, s)),
                  FMul(v, FSub(F1_0, FMul(s, f))),
                  FMul(v, FSub(F1_0, FMul(s, FSub(F1_0, f)))))

hsv_to_rgb_int(h6, i, s, v) == hsv_to_rgb_pqt(i, FSub(h6, FInt(i)), s, v)

hsv_to_rgb_scaled(h6, s, v) == hsv_to_rgb_int(h6, FTrunc(h6), s, v)

hsv_to_rgb(h, s, v) ==
  IF FIsZero(s) THEN <<v, v, v>> ELSE hsv_to_rgb_scaled(FMul(h, F6_0), s, v)

(* colorsys.rgb_to_hls (3.11: the saturation of a light colour divides by
   2.0 - maxc - minc) *)
rgb_to_hls_l(r, g, b, maxc, minc, sumc, rangec, l) ==
  IF minc = maxc THEN [h |-> F0_0, l |-> l, s |-> F0_0]
  ELSE [h |-> rgb_hue(r, g, b, maxc, rangec), l |-> l,
        s |-> IF FLe(l, F0_5) THEN FDiv(rangec, sumc)
              ELSE FDiv(rangec, FSub(FSub(F2_0, maxc), minc))]

rgb_to_hls_sum(r, g, b, maxc, minc, sumc) ==
  rgb_to_hls_l(r, g, b, maxc, minc, sumc, FSub(maxc, minc),
               FDiv(sumc, F2_0))

rgb_to_hls_minmax(r, g, b, maxc, minc) ==
  rgb_to_hls_sum(r, g, b, maxc, minc, FAdd(maxc, minc))

rgb_to_hls(r, g, b) ==
  rgb_to_hls_minmax(r, g, b, FMax3(r, g, b), FMin3(r, g, b))

(* colorsys._v, after hue = hue % 1.0 *)
hls_v_mod(m1, m2, hue) ==
  IF FLt(hue, ONE_SIXTH)
    THEN FAdd(m1, FMul(FMul(FSub(m2, m1), hue), F6_0))
  ELSE IF FLt(hue, F0_5) THEN m2
  ELSE IF FLt(hue, TWO_THIRD)
    THEN FAdd(m1, FMul(FMul(FSub(m2, m1), FSub(TWO_THIRD, hue)), F6_0))
  ELSE m1

hls_v(m1, m2, hue) == hls_v_mod(m1, m2, FMod1(hue))

(* colorsys.hls_to_rgb *)
hls_to_rgb_m1(h, m1, m2) ==
  <<hls_v(m1, m2, FAdd(h, ONE_THIRD)), hls_v(m1, m2, h),
    hls_v(m1, m2, FSub(h, ONE_THIRD))>>

hls_to_rgb_m2(h, l, m2) == hls_to_rgb_m1(h, FSub(FMul(F2_0, l), m2), m2)

hls_to_rgb(h, l, s) ==
  IF FIsZero(s) THEN <<l, l, l>>
  ELSE hls_to_rgb_m2(h, l, IF FLe(l, F0_5) THEN FMul(l, FAdd(F1_0, s))
                           ELSE FSub(FAdd(l, s), FMul(l, s)))

(* int(c) * 255: the parenthesis closed too early *)
Denormalize_IntFirst(c) == FTrunc(c) * 255

(* int(c * 255) *)
Denormalize(c) == FTrunc(FMul(c, F255_0))

(* every channel rounded to nearest: int(c * 255 + 0.5) *)
FromUnit_Nearest(rgb) ==
  ColorRGB(FTrunc(FAdd(FMul(rgb[1], F255_0), F0_5)),
           FTrunc(FAdd(FMul(rgb[2], F255_0), F0_5)),
           FTrunc(FAdd(FMul(rgb[3], F255_0), F0_5)))

(* ColorRGB(int(r * 255), int(g * 255), int(b * 255)) for rgb = <<r, g, b>> *)
FromUnit(rgb) ==
  ColorRGB(Denormalize(rgb[1]), Denormalize(rgb[2]), Denormalize(rgb[3]))

(* c / 255.0 for an int channel c *)
Normalize(c) == FDiv(FInt(c), F255_0)

to_hsv(self) ==
  rgb_to_hsv(Normalize(self.r), Normalize(self.g), Normalize(self.b))

from_hsv(h, s, v) == FromUnit(hsv_to_rgb(h, s, v))

to_hls(self) ==
  rgb_to_hls(Normalize(self.r), Normalize(self.g), Normalize(self.b))

from_hls(h, l, s) == FromUnit(hls_to_rgb(h, l, s))

----------------------------------------------------------------------------
(* class CombinacionColoresManager: scheme generators.  Every generator
   starts with color_base = ColorRGB.from_hex(hex_base), whose exception it
   lets through, and h, s, v = color_base.to_hsv() (to_hls() in
   generar_monocromatico); the operators named colores_* build the list from
   that tuple c. *)

COMPLEMENTARIO == <<"C", "O", "M", "P", "L", "E", "M", "E", "N", "T", "A", "R", "I", "O">>
ANALOGO        == <<"A", "N", "A", "L", "O", "G", "O">>
TRIADICO       == <<"T", "R", "I", "A", "D", "I", "C", "O">>
TETRADICO      == <<"T", "E", "T", "R", "A", "D", "I", "C", "O">>
MONOCROMATICO  == <<"M", "O", "N", "O", "C", "R", "O", "M", "A", "T", "I", "C", "O">>
ARMONICO       == <<"A", "R", "M", "O", "N", "I", "C", "O">>

(* to_hex() of the colour built from an HSV / HLS triple *)
HsvHex(h, s, v) == to_hex(from_hsv(h, s, v))

HlsHex(h, l, s) == to_hex(from_hls(h, l, s))

(* color_base.to_hsv() / to_hls() when from_hex returned a colour *)
base_hsv(color_base) ==
  IF color_base.ok THEN Ok(to_hsv(color_base.val)) ELSE color_base

base_hls(color_base) ==
  IF color_base.ok THEN Ok(to_hls(color_base.val)) ELSE color_base

colores_complementario_SameHue(hex_base, c) ==
  IF c.ok
  THEN Ok(<<hex_base, HsvHex(c.val.h, c.val.s, c.val.v)>>)
  ELSE c

colores_complementario(hex_base, c) ==
  IF c.ok
  THEN Ok(<<hex_base,
            HsvHex(FMod1(FAdd(c.val.h, F0_5)), c.val.s, c.val.v)>>)
  ELSE c

generar_complementario(hex_base) ==
  colores_complementario(hex_base, base_hsv(from_hex(hex_base)))

h_analogo_Floor(h, i) ==
  IF i % 2 = 1
  THEN FMod1(FAdd(h, FMul(FDiv(FInt(30), FInt(360)), FInt(i \div 2))))
  ELSE FMod1(FSub(h, FMul(FDiv(FInt(30), FInt(360)), FInt(i \div 2))))

(* angulo = 30 / 360 *)
h_analogo(h, i) ==
  IF i % 2 = 1
  THEN FMod1(FAdd(h, FMul(FDiv(FInt(30), FInt(360)), FInt((i + 1) \div 2))))
  ELSE FMod1(FSub(h, FMul(FDiv(FInt(30), FInt(360)), FInt(i \div 2))))

colores_analogo(hex_base, num_colores, c) ==
  IF c.ok
  THEN Ok(<<hex_base>> \o
          [i \in 1..(num_colores - 1) |->
             HsvHex(h_analogo(c.val.h, i), c.val.s, c.val.v)])
  ELSE c

generar_analogo(hex_base, num_colores) ==
  colores_analogo(hex_base, num_colores, base_hsv(from_hex(hex_base)))

(* (h + (i * grados / 360)) % 1.0 *)
h_girado(h, i, grados) == FMod1(FAdd(h, FDiv(FInt(i * grados), FInt(360))))

colores_triadico_Derived(hex_base, c) ==
  IF c.ok
  THEN Ok(<<HsvHex(c.val.h, c.val.s, c.val.v)>> \o
          [i \in 1..2 |-> HsvHex(h_girado(c.val.h, i, 120), c.val.s, c.val.v)])
  ELSE c

colores_triadico(hex_base, c) ==
  IF c.ok
  THEN Ok(<<hex_base>> \o
          [i \in 1..2 |-> HsvHex(h_girado(c.val.h, i, 120), c.val.s, c.val.v)])
  ELSE c

generar_triadico(hex_base) ==
  colores_triadico(hex_base, base_hsv(from_hex(hex_base)))

(* steps of 60 degrees instead of 90 *)
colores_tetradico_Sixths(hex_base, c) ==
  IF c.ok
  THEN Ok(<<hex_base>> \o
          [i \in 1..3 |-> HsvHex(h_girado(c.val.h, i, 60), c.val.s, c.val.v)])
  ELSE c

colores_tetradico(hex_base, c) ==
  IF c.ok
  THEN Ok(<<hex_base>> \o
          [i \in 1..3 |-> HsvHex(h_girado(c.val.h, i, 90), c.val.s, c.val.v)])
  ELSE c

generar_tetradico(hex_base) ==
  colores_tetradico(hex_base, base_hsv(from_hex(hex_base)))

l_monocromatico_PerCount(l, i, num_colores) ==
  IF num_colores > 1
  THEN FAdd(F0_2, FDiv(FMul(F0_7, FInt(i)), FInt(num_colores)))
  ELSE l

l_monocromatico(l, i, num_colores) ==
  IF num_colores > 1
  THEN FAdd(F0_2, FDiv(FMul(F0_7, FInt(i)), FInt(num_colores - 1)))
  ELSE l

(* every element at lightness 0.2 + 0.7 * i, whatever the count *)
colores_monocromatico_FromDarkest(num_colores, c) ==
  IF c.ok
  THEN Ok([k \in 1..num_colores |->
             HlsHex(c.val.h, FAdd(F0_2, FMul(F0_7, FInt(k - 1))), c.val.s)])
  ELSE c

(* the loop index i of the source runs over range(num_colores): 0..n-1 *)
colores_monocromatico(num_colores, c) ==
  IF c.ok
  THEN Ok([k \in 1..num_colores |->
             HlsHex(c.val.h, l_monocromatico(c.val.l, k - 1, num_colores),
                    c.val.s)])
  ELSE c

generar_monocromatico(hex_base, num_colores) ==
  colores_monocromatico(num_colores, base_hls(from_hex(hex_base)))

ClampTo_NoLower(lo, x) == IF FLt(x, F1_0) THEN x ELSE F1_0

(* max(lo, min(1.0, x)) with Python's min and max: the first argument is
   kept unless the second is strictly smaller / larger *)
ClampTo(lo, x) ==
  IF FLt(x, F1_0) THEN (IF FLt(lo, x) THEN x ELSE lo)
  ELSE (IF FLt(lo, F1_0) THEN F1_0 ELSE lo)

colores_armonico_Inclusive(hex_base, num_colores, c) ==
  IF c.ok
  THEN Ok(<<hex_base>> \o
          [i \in 1..num_colores |->
             HsvHex(h_girado(c.val.h, i, 15),
                    ClampTo(F0_3, FSub(c.val.s, FMul(FInt(i), F0_1))),
                    ClampTo(F0_4, FAdd(c.val.v, FMul(FInt(i), F0_05))))])
  ELSE c

colores_armonico(hex_base, num_colores, c) ==
  IF c.ok
  THEN Ok(<<hex_base>> \o
          [i \in 1..(num_colores - 1) |->
             HsvHex(h_girado(c.val.h, i, 15),
                    ClampTo(F0_3, FSub(c.val.s, FMul(FInt(i), F0_1))),
                    ClampTo(F0_4, FAdd(c.val.v, FMul(FInt(i), F0_05))))])
  ELSE c

generar_armonico(hex_base, num_colores) ==
  colores_armonico(hex_base, num_colores, base_hsv(from_hex(hex_base)))

(* the message of the source goes on with ": " and the upper-cased token *)
InvalidScheme == Raise("ValueError", "Tipo de esquema no válido")

(* tipo is tipo_esquema.upper() *)
esquema_por_tipo(tipo, hex_base, num_colores) ==
  IF tipo = COMPLEMENTARIO THEN generar_complementario(hex_base)
  ELSE IF tipo = ANALOGO THEN generar_analogo(hex_base, num_colores)
  ELSE IF tipo = TRIADICO THEN generar_triadico(hex_base)
  ELSE IF tipo = TETRADICO THEN generar_tetradico(hex_base)
  ELSE IF tipo = MONOCROMATICO
    THEN generar_monocromatico(hex_base, num_colores)
  ELSE IF tipo = ARMONICO THEN generar_armonico(hex_base, num_colores)
  ELSE InvalidScheme

generar_esquema(tipo_esquema, hex_base, num_colores) ==
  esquema_por_tipo(StrUpper(tipo_esquema), hex_base, num_colores)

----------------------------------------------------------------------------
(* colour analysis *)

(* ((c / 255.0 + 0.055) / 1.055) ** 2.4 for the channels c = 0..255 (entry
   c + 1): the correctly rounded double of the power for each of the 256
   arguments the source can raise *)
GammaPowTable ==
  <<[s |-> 0, h |-> 57298650, l |-> 102541699, e |-> -63],
    [s |-> 0, h |-> 33798876, l |-> 82286849, e |-> -62],
    [s |-> 0, h |-> 39451434, l |-> 121370414, e |-> -62],
    [s |-> 0, h |-> 45620138, l |-> 95953986, e |-> -62],
    [s |-> 0, h |-> 52317642, l |-> 104702784, e |-> -62],
    [s |-> 0, h |-> 59556162, l |-> 120720592, e |-> -62],
    [s |-> 0, h |-> 33673757, l |-> 23489987, e |-> -61],
    [s |-> 0, h |-> 37851572, l |-> 74896535, e |-> -61],
    [s |-> 0, h |-> 42317082, l |-> 57464918, e |-> -61],
    [s |-> 0, h |-> 47075685, l |-> 22242669, e |-> -61],
    [s |-> 0, h |-> 52132633, l |-> 125056740, e |-> -61],
    [s |-> 0, h |-> 57493046, l |-> 86351001, e |-> -61],
    [s |-> 0, h |-> 63161914, l |-> 118266333, e |-> -61],
    [s |-> 0, h |-> 34572055, l |-> 126190505, e |-> -60],
    [s |-> 0, h |-> 37722199, l |-> 116220961, e |-> -60],
    [s |-> 0, h |-> 41033717, l |-> 127263353, e |-> -60],
    [s |-> 0, h |-> 44508889, l |-> 75221288, e |-> -60],
    [s |-> 0, h |-> 48149947, l |-> 55626005, e |-> -60],
    [s |-> 0, h |-> 51959080, l |-> 3257697, e |-> -60],
    [s |-> 0, h |-> 55938433, l |-> 129594193, e |-> -60],
    [s |-> 0, h |-> 60090115, l |-> 127885355, e |-> -60],
    [s |-> 0, h |-> 64416194, l |-> 101284048, e |-> -60],
    [s |-> 0, h |-> 34459351, l |-> 64656056, e |-> -59],
    [s |-> 0, h |-> 36799819, l |-> 42631236, e |-> -59],
    [s |-> 0, h |-> 39230483, l |-> 54463203, e |-> -59],
    [s |-> 0, h |-> 41752310, l |-> 62777701, e |-> -59],
    [s |-> 0, h |-> 44366252, l |-> 11504517, e |-> -59],
    [s |-> 0, h |-> 47073245, l |-> 42809097, e |-> -59],
    [s |-> 0, h |-> 49874213, l |-> 37598899, e |-> -59],
    [s |-> 0, h |-> 52770065, l |-> 90682657, e |-> -59],
    [s |-> 0, h |-> 55761699, l |-> 41948861, e |-> -59],
    [s |-> 0, h |-> 58849998, l |-> 77200054, e |-> -59],
    [s |-> 0, h |-> 62035835, l |-> 117273614, e |-> -59],
    [s |-> 0, h |-> 65320072, l |-> 9013311, e |-> -59],
    [s |-> 0, h |-> 34351778, l |-> 57853588, e |-> -58],
    [s |-> 0, h |-> 36093564, l |-> 79875298, e |-> -58],
    [s |-> 0, h |-> 37885808, l |-> 105034098, e |-> -58],
    [s |-> 0, h |-> 39728920, l |-> 28198589, e |-> -58],
    [s |-> 0, h |-> 41623303, l |-> 28810251, e |-> -58],
    [s |-> 0, h |-> 43569357, l |-> 54435748, e |-> -58],
    [s |-> 0, h |-> 45567477, l |-> 108610323, e |-> -58],
    [s |-> 0, h |-> 47618055, l |-> 863726, e |-> -58],
    [s |-> 0, h |-> 49721475, l |-> 35386284, e |-> -58],
    [s |-> 0, h |-> 51878120, l |-> 88255963, e |-> -58],
    [s |-> 0, h |-> 54088369, l |-> 26069173, e |-> -58],
    [s |-> 0, h |-> 56352594, l |-> 123846688, e |-> -58],
    [s |-> 0, h |-> 58671168, l |-> 5864409, e |-> -58],
    [s |-> 0, h |-> 61044455, l |-> 1764383, e |-> -58],
    [s |-> 0, h |-> 63472818, l |-> 86145994, e |-> -58],
    [s |-> 0, h |-> 65956618, l |-> 25551285, e |-> -58],
    [s |-> 0, h |-> 34248104, l |-> 98003064, e |-> -57],
    [s |-> 0, h |-> 35545972, l |-> 59178790, e |-> -57],
    [s |-> 0, h |-> 36872086, l |-> 107181179, e |-> -57],
    [s |-> 0, h |-> 38226620, l |-> 103441962, e |-> -57],
    [s |-> 0, h |-> 39609745, l |-> 102010129, e |-> -57],
    [s |-> 0, h |-> 41021631, l |-> 86108879, e |-> -57],
    [s |-> 0, h |-> 42462446, l |-> 107155711, e |-> -57],
    [s |-> 0, h |-> 43932358, l |-> 20949200, e |-> -57],
    [s |-> 0, h |-> 45431531, l |-> 28991184, e |-> -57],
    [s |-> 0, h |-> 46960130, l |-> 11687150, e |-> -57],
    [s |-> 0, h |-> 48518317, l |-> 69351918, e |-> -57],
    [s |-> 0, h |-> 50106254, l |-> 123544615, e |-> -57],
    [s |-> 0, h |-> 51724102, l |-> 55134983, e |-> -57],
    [s |-> 0, h |-> 53372018, l |-> 110672332, e |-> -57],
    [s |-> 0, h |-> 55050161, l |-> 100668297, e |-> -57],
    [s |-> 0, h |-> 56758687, l |-> 74153916, e |-> -57],
    [s |-> 0, h |-> 58497751, l |-> 53597474, e |-> -57],
    [s |-> 0, h |-> 60267507, l |-> 38147826, e |-> -57],
    [s |-> 0, h |-> 62068108, l |-> 6772787, e |-> -57],
    [s |-> 0, h |-> 63899705, l |-> 55514847, e |-> -57],
    [s |-> 0, h |-> 65762449, l |-> 131997768, e |-> -57],
    [s |-> 0, h |-> 33828245, l |-> 86247269, e |-> -56],
    [s |-> 0, h |-> 34790988, l |-> 119453717, e |-> -56],
    [s |-> 0, h |-> 35769528, l |-> 59396498, e |-> -56],
    [s |-> 0, h |-> 36763937, l |-> 66632930, e |-> -56],
    [s |-> 0, h |-> 37774288, l |-> 99997402, e |-> -56],
    [s |-> 0, h |-> 38800654, l |-> 52042066, e |-> -56],
    [s |-> 0, h |-> 39843106, l |-> 18659659, e |-> -56],
    [s |-> 0, h |-> 40901715, l |-> 31801234, e |-> -56],
    [s |-> 0, h |-> 41976552, l |-> 60596495, e |-> -56],
    [s |-> 0, h |-> 43067688, l |-> 12442619, e |-> -56],
    [s |-> 0, h |-> 44175192, l |-> 2498137, e |-> -56],
    [s |-> 0, h |-> 45299133, l |-> 86276780, e |-> -56],
    [s |-> 0, h |-> 46439581, l |-> 126430932, e |-> -56],
    [s |-> 0, h |-> 47596605, l |-> 62161278, e |-> -56],
    [s |-> 0, h |-> 48770272, l |-> 44382673, e |-> -56],
    [s |-> 0, h |-> 49960650, l |-> 33994023, e |-> -56],
    [s |-> 0, h |-> 51167806, l |-> 71212650, e |-> -56],
    [s |-> 0, h |-> 52391808, l |-> 8014448, e |-> -56],
    [s |-> 0, h |-> 53632721, l |-> 45857929, e |-> -56],
    [s |-> 0, h |-> 54890612, l |-> 65427053, e |-> -56],
    [s |-> 0, h |-> 56165547, l |-> 30094916, e |-> -56],
    [s |-> 0, h |-> 57457590, l |-> 120931844, e |-> -56],
    [s |-> 0, h |-> 58766808, l |-> 66387550, e |-> -56],
    [s |-> 0, h |-> 60093264, l |-> 82567216, e |-> -56],
    [s |-> 0, h |-> 61437023, l |-> 68658853, e |-> -56],
    [s |-> 0, h |-> 62798149, l |-> 10302648, e |-> -56],
    [s |-> 0, h |-> 64176704, l |-> 114507779, e |-> -56],
    [s |-> 0, h |-> 65572754, l |-> 5028686, e |-> -56],
    [s |-> 0, h |-> 66986359, l |-> 65209026, e |-> -56],
    [s |-> 0, h |-> 34208791, l |-> 115336689, e |-> -55],
    [s |-> 0, h |-> 34933244, l |-> 62090639, e |-> -55],
    [s |-> 0, h |-> 35666568, l |-> 64995439, e |-> -55],
    [s |-> 0, h |-> 36408794, l |-> 93253599, e |-> -55],
    [s |-> 0, h |-> 37159953, l |-> 94764784, e |-> -55],
    [s |-> 0, h |-> 37920075, l |-> 130634058, e |-> -55],
    [s |-> 0, h |-> 38689191, l |-> 107020579, e |-> -55],
    [s |-> 0, h |-> 39467331, l |-> 43851003, e |-> -55],
    [s |-> 0, h |-> 40254524, l |-> 75091445, e |-> -55],
    [s |-> 0, h |-> 41050801, l |-> 46360398, e |-> -55],
    [s |-> 0, h |-> 41856191, l |-> 52060117, e |-> -55],
    [s |-> 0, h |-> 42670724, l |-> 32978399, e |-> -55],
    [s |-> 0, h |-> 43494429, l |-> 44973683, e |-> -55],
    [s |-> 0, h |-> 44327335, l |-> 125001780, e |-> -55],
    [s |-> 0, h |-> 45169473, l |-> 22919841, e |-> -55],
    [s |-> 0, h |-> 46020870, l |-> 7027260, e |-> -55],
    [s |-> 0, h |-> 46881555, l |-> 58989099, e |-> -55],
    [s |-> 0, h |-> 47751558, l |-> 8278975, e |-> -55],
    [s |-> 0, h |-> 48630906, l |-> 69270656, e |-> -55],
    [s |-> 0, h |-> 49519629, l |-> 36147971, e |-> -55],
    [s |-> 0, h |-> 50417754, l |-> 88423261, e |-> -55],
    [s |-> 0, h |-> 51325310, l |-> 120056639, e |-> -55],
    [s |-> 0, h |-> 52242326, l |-> 8095353, e |-> -55],
    [s |-> 0, h |-> 53168828, l |-> 15526923, e |-> -55],
    [s |-> 0, h |-> 54104844, l |-> 120386686, e |-> -55],
    [s |-> 0, h |-> 55050404, l |-> 15950236, e |-> -55],
    [s |-> 0, h |-> 56005533, l |-> 50446339, e |-> -55],
    [s |-> 0, h |-> 56970260, l |-> 19282698, e |-> -55],
    [s |-> 0, h |-> 57944611, l |-> 104751917, e |-> -55],
    [s |-> 0, h |-> 58928615, l |-> 70903663, e |-> -55],
    [s |-> 0, h |-> 59922298, l |-> 69026302, e |-> -55],
    [s |-> 0, h |-> 60925687, l |-> 100948049, e |-> -55],
    [s |-> 0, h |-> 61938810, l |-> 19205992, e |-> -55],
    [s |-> 0, h |-> 62961692, l |-> 64082912, e |-> -55],
    [s |-> 0, h |-> 63994361, l |-> 58463984, e |-> -55],
    [s |-> 0, h |-> 65036843, l |-> 79085523, e |-> -55],
    [s |-> 0, h |-> 66089165, l |-> 54039117, e |-> -55],
    [s |-> 0, h |-> 33575676, l |-> 82789715, e |-> -54],
    [s |-> 0, h |-> 34111716, l |-> 89593722, e |-> -54],
    [s |-> 0, h |-> 34652715, l |-> 124513082, e |-> -54],
    [s |-> 0, h |-> 35198687, l |-> 56390494, e |-> -54],
    [s |-> 0, h |-> 35749644, l |-> 15664026, e |-> -54],
    [s |-> 0, h |-> 36305598, l |-> 126002598, e |-> -54],
    [s |-> 0, h |-> 36866564, l |-> 101722519, e |-> -54],
    [s |-> 0, h |-> 37432554, l |-> 53162417, e |-> -54],
    [s |-> 0, h |-> 38003580, l |-> 84097511, e |-> -54],
    [s |-> 0, h |-> 38579656, l |-> 23370467, e |-> -54],
    [s |-> 0, h |-> 39160793, l |-> 96045304, e |-> -54],
    [s |-> 0, h |-> 39747005, l |-> 118165208, e |-> -54],
    [s |-> 0, h |-> 40338305, l |-> 33686584, e |-> -54],
    [s |-> 0, h |-> 40934704, l |-> 48758961, e |-> -54],
    [s |-> 0, h |-> 41536215, l |-> 94915201, e |-> -54],
    [s |-> 0, h |-> 42142851, l |-> 97567164, e |-> -54],
    [s |-> 0, h |-> 42754624, l |-> 110282671, e |-> -54],
    [s |-> 0, h |-> 43371547, l |-> 46408349, e |-> -54],
    [s |-> 0, h |-> 43993631, l |-> 81780245, e |-> -54],
    [s |-> 0, h |-> 44620889, l |-> 117909417, e |-> -54],
    [s |-> 0, h |-> 45253334, l |-> 50473048, e |-> -54],
    [s |-> 0, h |-> 45890977, l |-> 37804715, e |-> -54],
    [s |-> 0, h |-> 46533830, l |-> 98295163, e |-> -54],
    [s |-> 0, h |-> 47181906, l |-> 110445474, e |-> -54],
    [s |-> 0, h |-> 47835217, l |-> 81354873, e |-> -54],
    [s |-> 0, h |-> 48493775, l |-> 12554589, e |-> -54],
    [s |-> 0, h |-> 49157591, l |-> 34276394, e |-> -54],
    [s |-> 0, h |-> 49826678, l |-> 2849477, e |-> -54],
    [s |-> 0, h |-> 50501047, l |-> 37620697, e |-> -54],
    [s |-> 0, h |-> 51180710, l |-> 118350001, e |-> -54],
    [s |-> 0, h |-> 51865680, l |-> 85258343, e |-> -54],
    [s |-> 0, h |-> 52555968, l |-> 41728078, e |-> -54],
    [s |-> 0, h |-> 53251585, l |-> 85914033, e |-> -54],
    [s |-> 0, h |-> 53952544, l |-> 42353953, e |-> -54],
    [s |-> 0, h |-> 54658855, l |-> 133102333, e |-> -54],
    [s |-> 0, h |-> 55370532, l |-> 38250942, e |-> -54],
    [s |-> 0, h |-> 56087584, l |-> 103932309, e |-> -54],
    [s |-> 0, h |-> 56810025, l |-> 185802, e |-> -54],
    [s |-> 0, h |-> 57537864, l |-> 63177659, e |-> -54],
    [s |-> 0, h |-> 58271114, l |-> 87283589, e |-> -54],
    [s |-> 0, h |-> 59009786, l |-> 130436701, e |-> -54],
    [s |-> 0, h |-> 59753892, l |-> 111515358, e |-> -54],
    [s |-> 0, h |-> 60503443, l |-> 78819058, e |-> -54],
    [s |-> 0, h |-> 61258450, l |-> 75890629, e |-> -54],
    [s |-> 0, h |-> 62018925, l |-> 7337858, e |-> -54],
    [s |-> 0, h |-> 62784878, l |-> 41525517, e |-> -54],
    [s |-> 0, h |-> 63556321, l |-> 73742789, e |-> -54],
    [s |-> 0, h |-> 64333265, l |-> 128894246, e |-> -54],
    [s |-> 0, h |-> 65115722, l |-> 93101732, e |-> -54],
    [s |-> 0, h |-> 65903702, l |-> 116394371, e |-> -54],
    [s |-> 0, h |-> 66697217, l |-> 75873986, e |-> -54],
    [s |-> 0, h |-> 33748138, l |-> 123419826, e |-> -53],
    [s |-> 0, h |-> 34150447, l |-> 47431755, e |-> -53],
    [s |-> 0, h |-> 34555539, l |-> 77436983, e |-> -53],
    [s |-> 0, h |-> 34963421, l |-> 8962128, e |-> -53],
    [s |-> 0, h |-> 35374097, l |-> 38028488, e |-> -53],
    [s |-> 0, h |-> 35787573, l |-> 90080235, e |-> -53],
    [s |-> 0, h |-> 36203855, l |-> 88436463, e |-> -53],
    [s |-> 0, h |-> 36622948, l |-> 88525330, e |-> -53],
    [s |-> 0, h |-> 37044858, l |-> 9464794, e |-> -53],
    [s |-> 0, h |-> 37469589, l |-> 36731781, e |-> -53],
    [s |-> 0, h |-> 37897147, l |-> 85307086, e |-> -53],
    [s |-> 0, h |-> 38327538, l |-> 68126417, e |-> -53],
    [s |-> 0, h |-> 38760767, l |-> 30313547, e |-> -53],
    [s |-> 0, h |-> 39196839, l |-> 14977799, e |-> -53],
    [s |-> 0, h |-> 39635759, l |-> 63229088, e |-> -53],
    [s |-> 0, h |-> 40077533, l |-> 79975053, e |-> -53],
    [s |-> 0, h |-> 40522166, l |-> 102371187, e |-> -53],
    [s |-> 0, h |-> 40969664, l |-> 31399884, e |-> -53],
    [s |-> 0, h |-> 41420031, l |-> 34537963, e |-> -53],
    [s |-> 0, h |-> 41873273, l |-> 8899899, e |-> -53],
    [s |-> 0, h |-> 42329394, l |-> 118122744, e |-> -53],
    [s |-> 0, h |-> 42788401, l |-> 121291309, e |-> -53],
    [s |-> 0, h |-> 43250299, l |-> 44040467, e |-> -53],
    [s |-> 0, h |-> 43715092, l |-> 44350945, e |-> -53],
    [s |-> 0, h |-> 44182786, l |-> 9909477, e |-> -53],
    [s |-> 0, h |-> 44653385, l |-> 94992923, e |-> -53],
    [s |-> 0, h |-> 45126896, l |-> 49392675, e |-> -53],
    [s |-> 0, h |-> 45603323, l |-> 23733912, e |-> -53],
    [s |-> 0, h |-> 46082671, l |-> 32617453, e |-> -53],
    [s |-> 0, h |-> 46564945, l |-> 88850071, e |-> -53],
    [s |-> 0, h |-> 47050151, l |-> 69239247, e |-> -53],
    [s |-> 0, h |-> 47538293, l |-> 117258666, e |-> -53],
    [s |-> 0, h |-> 48029377, l |-> 106189489, e |-> -53],
    [s |-> 0, h |-> 48523408, l |-> 41785590, e |-> -53],
    [s |-> 0, h |-> 49020390, l |-> 62285467, e |-> -53],
    [s |-> 0, h |-> 49520329, l |-> 35770850, e |-> -53],
    [s |-> 0, h |-> 50023229, l |-> 97049264, e |-> -53],
    [s |-> 0, h |-> 50529096, l |-> 110794631, e |-> -53],
    [s |-> 0, h |-> 51037935, l |-> 74211876, e |-> -53],
    [s |-> 0, h |-> 51549750, l |-> 117048183, e |-> -53],
    [s |-> 0, h |-> 52064547, l |-> 98950985, e |-> -53],
    [s |-> 0, h |-> 52582331, l |-> 12132165, e |-> -53],
    [s |-> 0, h |-> 53103105, l |-> 115596709, e |-> -53],
    [s |-> 0, h |-> 53626876, l |-> 129847143, e |-> -53],
    [s |-> 0, h |-> 54153649, l |-> 42200572, e |-> -53],
    [s |-> 0, h |-> 54683427, l |-> 106799263, e |-> -53],
    [s |-> 0, h |-> 55216217, l |-> 39314734, e |-> -53],
    [s |-> 0, h |-> 55752022, l |-> 90699919, e |-> -53],
    [s |-> 0, h |-> 56290848, l |-> 107675330, e |-> -53],
    [s |-> 0, h |-> 56832700, l |-> 69610089, e |-> -53],
    [s |-> 0, h |-> 57377582, l |-> 88531960, e |-> -53],
    [s |-> 0, h |-> 57925500, l |-> 6484102, e |-> -53],
    [s |-> 0, h |-> 58476457, l |-> 66623515, e |-> -53],
    [s |-> 0, h |-> 59030459, l |-> 107924411, e |-> -53],
    [s |-> 0, h |-> 59587511, l |-> 102058737, e |-> -53],
    [s |-> 0, h |-> 60147618, l |-> 19187979, e |-> -53],
    [s |-> 0, h |-> 60710783, l |-> 96408049, e |-> -53],
    [s |-> 0, h |-> 61277013, l |-> 32452226, e |-> -53],
    [s |-> 0, h |-> 61846311, l |-> 61442260, e |-> -53],
    [s |-> 0, h |-> 62418683, l |-> 13373397, e |-> -53],
    [s |-> 0, h |-> 62994132, l |-> 119429798, e |-> -53],
    [s |-> 0, h |-> 63572665, l |-> 72469428, e |-> -53],
    [s |-> 0, h |-> 64154285, l |-> 100774737, e |-> -53],
    [s |-> 0, h |-> 64738998, l |-> 28537366, e |-> -53],
    [s |-> 0, h |-> 65326807, l |-> 81173214, e |-> -53],
    [s |-> 0, h |-> 65917718, l |-> 80024678, e |-> -53],
    [s |-> 0, h |-> 66511735, l |-> 113457842, e |-> -53],
    [s |-> 0, h |-> 33554432, l |-> 0, e |-> -52]>>

(* r / 12.92 if r <= 0.03928 else ((r + 0.055) / 1.055) ** 2.4, for
   r = c / 255.0 *)
gamma(c) ==
  IF FLe(Normalize(c), F0_03928) THEN FDiv(Normalize(c), F12_92)
  ELSE GammaPowTable[c + 1]

luminancia_relativa_NoBlue(color_rgb) ==
  FAdd(FMul(F0_2126, gamma(color_rgb.r)), FMul(F0_7152, gamma(color_rgb.g)))

luminancia_relativa(color_rgb) ==
  FAdd(FAdd(FMul(F0_2126, gamma(color_rgb.r)),
            FMul(F0_7152, gamma(color_rgb.g))),
       FMul(F0_0722, gamma(color_rgb.b)))

contraste_ordenado_NoSwap(l1, l2) == FDiv(FAdd(l1, F0_05), FAdd(l2, F0_05))

(* if l2 > l1: l1, l2 = l2, l1; return (l1 + 0.05) / (l2 + 0.05) *)
contraste_ordenado(l1, l2) ==
  IF FLt(l1, l2) THEN FDiv(FAdd(l2, F0_05), FAdd(l1, F0_05))
  ELSE FDiv(FAdd(l1, F0_05), FAdd(l2, F0_05))

(* color1 and color2 are what from_hex returned or raised, in this order *)
contraste_colores(color1, color2) ==
  IF ~color1.ok THEN color1
  ELSE IF ~color2.ok THEN color2
  ELSE Ok(contraste_ordenado(luminancia_relativa(color1.val),
                             luminancia_relativa(color2.val)))

calcular_contraste(hex_color1, hex_color2) ==
  contraste_colores(from_hex(hex_color1), from_hex(hex_color2))

(* 0.299 * color.r + 0.587 * color.g + 0.114 * color.b *)
luminosidad(color) ==
  FAdd(FAdd(FMul(F0_299, FInt(color.r)), FMul(F0_587, FInt(color.g))),
       FMul(F0_114, FInt(color.b)))

es_claro(color) ==
  IF color.ok THEN Ok(FLt(F127_5, luminosidad(color.val))) ELSE color

es_color_claro(hex_color) == es_claro(from_hex(hex_color))

NEGRO == <<"#", "0", "0", "0", "0", "0", "0">>
BLANCO == <<"#", "F", "F", "F", "F", "F", "F">>

texto_para_Swapped(claro) ==
  IF claro.ok THEN Ok(IF claro.val THEN BLANCO ELSE NEGRO) ELSE claro

texto_para(claro) ==
  IF claro.ok THEN Ok(IF claro.val THEN NEGRO ELSE BLANCO) ELSE claro

sugerir_color_texto(hex_fondo) == texto_para(es_color_claro(hex_fondo))

----------------------------------------------------------------------------
(* saved combinations *)

(* fecha_creacion of a Combinacion that was constructed and not yet dated *)
NoDate == "None"

(* Combinacion.__init__ *)
Combinacion(id_combinacion, nombre, tipo_esquema, colores_hex, descripcion) ==
  [id_combinacion |-> id_combinacion, nombre |-> nombre,
   tipo_esquema |-> tipo_esquema, colores_hex |-> colores_hex,
   descripcion |-> descripcion, fecha_creacion |-> NoDate,
   favorito |-> FALSE]

(* d[k] = v and del d[k] on a dict *)
DictPut(d, k, v) == [x \in DOMAIN d \cup {k} |-> IF x = k THEN v ELSE d[x]]

DictDel(d, k) == [x \in DOMAIN d \ {k} |-> d[x]]

(* the Combinacion guardar_combinacion stores under the next id *)
combinacion_nueva(id, nombre, tipo_esquema, colores_hex, descripcion, ahora) ==
  [Combinacion(id, nombre, tipo_esquema, colores_hex, descripcion)
     EXCEPT !.fecha_creacion = ahora]

campos_permitidos == {"nombre", "descripcion", "favorito"}

(* every keyword argument set, allowed or not *)
actualizada_AnyField(combinacion, kwargs) ==
  [f \in DOMAIN combinacion |->
     IF f \in DOMAIN kwargs THEN kwargs[f] ELSE combinacion[f]]

(* the setattr loop of actualizar_combinacion over the keyword arguments *)
actualizada(combinacion, kwargs) ==
  [f \in DOMAIN combinacion |->
     IF f \in DOMAIN kwargs \cap campos_permitidos THEN kwargs[f]
     ELSE combinacion[f]]

----------------------------------------------------------------------------
(* inputs of the calls *)

NumTextPairs == 12
NumChannels  == 13
NumBases     == 40
NumEsqBases  == 4
NumLongBases == 2
NumTipos     == 12
MaxCount     == 5

(* two-character pieces the texts given to from_hex are built from *)
TextPairTable ==
  <<<<"0", "0">>,
    <<"f", "f">>,
    <<"A", "B">>,
    <<"C", "0">>,
    <<"3", "a">>,
    <<"Z", "Z">>,
    <<"+", "1">>,
    <<"-", "2">>,
    <<" ", "3">>,
    <<"4", " ">>,
    <<"_", "5">>,
    <<"0", "x">>,
    <<"F", "e">>,
    <<"G", "0">>,
    <<"9", "d">>>>

(* texts of other lengths, and the examples of the documentation *)
ExtraTexts ==
  <<<<"#", "A", "B", "C">>,
    <<"#", "#", "A", "A", "B", "B", "C", "C">>,
    <<"+", "1", "+", "2", "+", "3">>,
    <<>>,
    <<"#">>,
    <<"#", "1", "2", "3", "4", "5">>,
    <<"#", "1", "2", "3", "4", "5", "6", "7">>,
    <<"A", "B", "C", "D", "E", "F", "A">>,
    <<"1", "2", "3", "4", "5">>,
    <<" ", "#", "0", "0", "0", "0", "0", "0">>,
    <<"#", "0", "0", "0", "0", "0", "0", " ">>,
    <<"#", "3", "4", "9", "8", "D", "B">>,
    <<"#", "#", "#">>>>

TextPairs == {TextPairTable[i] : i \in 1..NumTextPairs}

TextInputs ==
  {p \o a \o b \o c : p \in {<<>>, <<"#">>, <<"#", "#">>},
                      a \in TextPairs, b \in TextPairs, c \in TextPairs}
  \cup {ExtraTexts[i] : i \in 1..Len(ExtraTexts)}

ChannelTable == <<-300, -1, 0, 1, 3, 52, 127, 128, 152, 219, 254, 255, 256, 1000, 17, 200>>

Channels == {ChannelTable[i] : i \in 1..NumChannels}

(* base colours given to the generators *)
BaseTable ==
  <<<<"#", "3", "4", "9", "8", "D", "B">>,
    <<"#", "8", "0", "8", "0", "8", "0">>,
    <<"f", "f", "0", "0", "0", "0">>,
    <<"#", "A", "B", "C">>,
    <<"#", "0", "0", "0", "0", "0", "1">>,
    <<"#", "5", "D", "4", "C", "5", "B">>,
    <<"#", "F", "F", "F", "F", "F", "F">>,
    <<"#", "0", "0", "0", "0", "0", "0">>,
    <<"#", "0", "1", "F", "F", "7", "f">>,
    <<"#", "Z", "Z", "Z", "Z", "Z", "Z">>,
    <<"#", "#", "A", "A", "B", "B", "C", "C">>,
    <<"+", "1", "+", "2", "+", "3">>,
    <<"#", "E", "6", "7", "E", "2", "2">>,
    <<"2", "e", "c", "c", "7", "1">>,
    <<"#", "9", "B", "5", "9", "B", "6">>,
    <<"#", "F", "1", "C", "4", "0", "F">>,
    <<"#", "0", "3", "0", "2", "0", "1">>,
    <<"#", "0", "0", "0", "1", "0", "0">>,
    <<"#", "0", "1", "0", "0", "0", "0">>,
    <<"#", "F", "F", "F", "E", "F", "D">>,
    <<"6", "6", "4", "7", "4", "7">>,
    <<"#", "0", "a", "1", "4", "1", "e">>,
    <<"#", "F", "E", "F", "F", "0", "0">>,
    <<"#", "0", "0", "F", "F", "F", "F">>,
    <<"7", "f", "0", "0", "f", "f">>,
    <<"#", "1", "2", "3", "4", "5", "6">>,
    <<"#", "C", "8", "6", "4", "3", "2">>,
    <<"#", "4", "d", "4", "d", "4", "e">>,
    <<"F", "F", "0", "0", "F", "E">>,
    <<"#", "0", "1", "0", "1", "0", "0">>,
    <<"#", "3", "c", "b", "3", "7", "1">>,
    <<"#", "F", "0", "5", "D", "9", "B">>,
    <<"6", "6", "D", "1", "8", "7">>,
    <<"#", "7", "d", "f", "f", "b", "5">>,
    <<"#", "D", "4", "6", "F", "9", "E">>,
    <<"#", "A", "9", "2", "6", "6", "9">>,
    <<"e", "f", "4", "b", "6", "c">>,
    <<"#", "D", "2", "1", "D", "B", "2">>,
    <<"#", "D", "5", "E", "E", "3", "F">>,
    <<"#", "4", "7", "a", "7", "c", "7">>,
    <<"A", "9", "B", "0", "6", "6">>>>

Bases == {BaseTable[i] : i \in 1..NumBases}

EsqBases == {BaseTable[i] : i \in 1..NumEsqBases}

LongBases == {BaseTable[i] : i \in 1..NumLongBases}

TipoTable ==
  <<<<"c", "o", "m", "p", "l", "e", "m", "e", "n", "t", "a", "r", "i", "o">>,
    <<"A", "n", "a", "l", "o", "g", "o">>,
    <<"T", "R", "I", "A", "D", "I", "C", "O">>,
    <<"t", "E", "t", "R", "a", "D", "i", "C", "o">>,
    <<"M", "o", "n", "o", "C", "r", "o", "m", "a", "t", "i", "c", "o">>,
    <<"a", "r", "m", "o", "n", "i", "c", "o">>,
    <<"n", "o", "_", "s", "u", "c", "h", "_", "s", "c", "h", "e", "m", "e">>,
    <<>>,
    <<"t", "r", "U+0131", "a", "d", "U+0131", "c", "o">>,
    <<"a", "n", "á", "l", "o", "g", "o">>,
    <<"A", "N", "A", "L", "O", "G", "O">>,
    <<"A", "N", "A", "L", "O", "G", "O", "S">>,
    <<"A", "r", "m", "ó", "n", "i", "c", "o">>,
    <<"t", "r", "i", "a", "d", "i", "c", "o", " ">>>>

Tipos == {TipoTable[i] : i \in 1..NumTipos}

(* colours given to the analysis operations: channel triples written as
   '#RRGGBB', and texts in other spellings *)
NumAnaChannels == 6
NumAnaTexts    == 12
NumAnaFirst    == 6

AnaChannelTable == <<0, 255, 218, 58, 248, 204, 68, 128, 10, 11>>

AnaChannels == {AnaChannelTable[i] : i \in 1..NumAnaChannels}

AnaTriples ==
  {to_hex(ColorRGB(r, g, b)) : r \in AnaChannels, g \in AnaChannels,
                               b \in AnaChannels}

AnaTextTable ==
  <<<<"#", "0", "0", "0", "0", "0", "0">>,
    <<"#", "F", "F", "F", "F", "F", "F">>,
    <<"f", "f", "f", "f", "f", "f">>,
    <<"#", "3", "4", "9", "8", "D", "B">>,
    <<"3", "4", "9", "8", "d", "b">>,
    <<"#", "d", "a", "3", "a", "f", "8">>,
    <<"#", "A", "B", "C">>,
    <<"Z", "Z", "Z", "Z", "Z", "Z">>,
    <<"#", "#", "A", "A", "B", "B", "C", "C">>,
    <<"+", "1", "+", "2", "+", "3">>,
    <<"#", "0", "0", "C", "C", "4", "4">>,
    <<"#", "8", "0", "8", "0", "8", "0">>,
    <<"#", "0", "A", "0", "B", "0", "C">>,
    <<>>>>

AnaTexts == {AnaTextTable[i] : i \in 1..NumAnaTexts}

(* one of the two arguments of calcular_contraste *)
AnaFirst == {AnaTextTable[i] : i \in 1..NumAnaFirst}

(* calls made between the operations on the saved combinations *)
MaxSaved     == 1
NumPureBases == 2

PureBaseTable ==
  <<<<"#", "3", "4", "9", "8", "D", "B">>,
    <<"#", "A", "B", "C">>,
    <<"f", "f", "0", "0", "0", "0">>,
    <<"#", "8", "0", "8", "0", "8", "0">>>>

PureBases == {PureBaseTable[i] : i \in 1..NumPureBases}

PureOps ==
  {"generar_complementario", "generar_analogo", "generar_triadico",
   "generar_tetradico", "generar_monocromatico", "generar_armonico",
   "generar_esquema", "calcular_contraste", "es_color_claro",
   "sugerir_color_texto"}

PureArgs(o) ==
  IF o = "generar_esquema" THEN {<<TipoTable[5], b>> : b \in PureBases}
  ELSE IF o = "calcular_contraste" THEN {<<b, BLANCO>> : b \in PureBases}
  ELSE {<<b>> : b \in PureBases}

(* what is saved: name, scheme name, colours, description, and the clock
   reading datetime.now() gives *)
Nombres == {"Verano"}

Guardables == {<<NEGRO, BLANCO>>}

Ahora == {"2024-01-01 00:00:00"}

(* keyword arguments given to actualizar_combinacion *)
KwargsSet ==
  {[favorito |-> TRUE], [nombre |-> "Invierno", tipo_esquema |-> "Otro"]}

(* the num_colores argument: omitted, or an int *)
CountArgs == {<<>>} \cup {<<n>> : n \in -1..MaxCount}

(* the longest list whose lightness steps, 0.7 * 255 / (n - 1), are all at
   least one channel unit apart, and the next length *)
LongCount == (7 * 255) \div 10 + 1

LongCountArgs == {<<LongCount>>, <<LongCount + 1>>}

(* default values of num_colores *)
DefaultAnalogo       == 3
DefaultMonocromatico == 4
DefaultArmonico      == 3
DefaultEsquema       == 3

NumArg(c, default) == IF c = <<>> THEN default ELSE c[1]

----------------------------------------------------------------------------
(* the calls: op is the chain of calls made since the caller last returned,
   args the arguments of its first call, ret what its last call returned or
   raised *)

VARIABLES op, args, ret

(* the manager: self.combinaciones_guardadas (a dict, id -> Combinacion) and
   self._next_combinacion_id; kept is a call and its result that the caller
   has kept to compare with later calls *)
VARIABLES combinaciones_guardadas, next_combinacion_id, kept

mgr == <<combinaciones_guardadas, next_combinacion_id>>

(* the clients manager: self.clientes (a dict, id -> Cliente) and
   self._next_cliente_id; hilos holds, for each of two concurrent callers,
   the position it has reached in its call and its local variables *)
VARIABLES clientes, next_cliente_id, hilos

cli == <<clientes, next_cliente_id>>

otros == <<clientes, next_cliente_id, hilos>>

vars ==
  <<op, args, ret, combinaciones_guardadas, next_combinacion_id, kept,
    clientes, next_cliente_id, hilos>>

Hilos == {1, 2}

(* a caller that is in no call *)
Ocioso == [pc |-> "fuera", llamada |-> "", nuevo |-> <<>>, leido |-> 0]

None == Ok(<<>>)

NothingKept == [op |-> <<>>, args |-> <<>>, ret |-> None]

Init ==
  /\ op = <<>>
  /\ args = <<>>
  /\ ret = None
  /\ combinaciones_guardadas = <<>>
  /\ next_combinacion_id = 1
  /\ kept = NothingKept
  /\ clientes = <<>>
  /\ next_cliente_id = 1
  /\ hilos = [t \in Hilos |-> Ocioso]

CallFromHex ==
  /\ op = <<>>
  /\ \E t \in TextInputs :
       /\ op' = <<"from_hex">>
       /\ args' = <<t>>
       /\ ret' = from_hex(t)
  /\ UNCHANGED <<mgr, kept, otros>>

CallColorRGB ==
  /\ op = <<>>
  /\ \E r \in Channels, g \in Channels, b \in Channels :
       /\ op' = <<"ColorRGB">>
       /\ args' = <<r, g, b>>
       /\ ret' = Ok(ColorRGB(r, g, b))
  /\ UNCHANGED <<mgr, kept, otros>>

(* a method call on the colour the previous call returned *)
CallToHex ==
  /\ op \in {<<"from_hex">>, <<"ColorRGB">>}
  /\ ret.ok
  /\ op' = Append(op, "to_hex")
  /\ ret' = Ok(to_hex(ret.val))
  /\ UNCHANGED args
  /\ UNCHANGED <<mgr, kept, otros>>

CallToHsv ==
  /\ op = <<"ColorRGB">>
  /\ op' = Append(op, "to_hsv")
  /\ ret' = Ok(to_hsv(ret.val))
  /\ UNCHANGED args
  /\ UNCHANGED <<mgr, kept, otros>>

CallFromHsv ==
  /\ op = <<"ColorRGB", "to_hsv">>
  /\ op' = Append(op, "from_hsv")
  /\ ret' = Ok(from_hsv(ret.val.h, ret.val.s, ret.val.v))
  /\ UNCHANGED args
  /\ UNCHANGED <<mgr, kept, otros>>

CallComplementario ==
  /\ op = <<>>
  /\ \E b \in Bases :
       /\ op' = <<"generar_complementario">>
       /\ args' = <<b>>
       /\ ret' = generar_complementario(b)
  /\ UNCHANGED <<mgr, kept, otros>>

CallAnalogo ==
  /\ op = <<>>
  /\ \E b \in Bases, c \in CountArgs :
       /\ op' = <<"generar_analogo">>
       /\ args' = <<b>> \o c
       /\ ret' = generar_analogo(b, NumArg(c, DefaultAnalogo))
  /\ UNCHANGED <<mgr, kept, otros>>

CallTriadico ==
  /\ op = <<>>
  /\ \E b \in Bases :
       /\ op' = <<"generar_triadico">>
       /\ args' = <<b>>
       /\ ret' = generar_triadico(b)
  /\ UNCHANGED <<mgr, kept, otros>>

CallTetradico ==
  /\ op = <<>>
  /\ \E b \in Bases :
       /\ op' = <<"generar_tetradico">>
       /\ args' = <<b>>
       /\ ret' = generar_tetradico(b)
  /\ UNCHANGED <<mgr, kept, otros>>

CallMonocromatico ==
  /\ op = <<>>
  /\ \E bc \in (Bases \X CountArgs) \cup (LongBases \X LongCountArgs) :
       /\ op' = <<"generar_monocromatico">>
       /\ args' = <<bc[1]>> \o bc[2]
       /\ ret' = generar_monocromatico(bc[1],
                                       NumArg(bc[2], DefaultMonocromatico))
  /\ UNCHANGED <<mgr, kept, otros>>

CallArmonico ==
  /\ op = <<>>
  /\ \E b \in Bases, c \in CountArgs :
       /\ op' = <<"generar_armonico">>
       /\ args' = <<b>> \o c
       /\ ret' = generar_armonico(b, NumArg(c, DefaultArmonico))
  /\ UNCHANGED <<mgr, kept, otros>>

CallEsquema ==
  /\ op = <<>>
  /\ \E t \in Tipos, b \in EsqBases, c \in CountArgs :
       /\ op' = <<"generar_esquema">>
       /\ args' = <<t, b>> \o c
       /\ ret' = generar_esquema(t, b, NumArg(c, DefaultEsquema))
  /\ UNCHANGED <<mgr, kept, otros>>

CallContraste ==
  /\ op = <<>>
  /\ \E a \in AnaFirst, b \in AnaTexts \cup AnaTriples :
       /\ op' = <<"calcular_contraste">>
       /\ \E ab \in {<<a, b>>, <<b, a>>} :
            /\ args' = ab
            /\ ret' = calcular_contraste(ab[1], ab[2])
  /\ UNCHANGED <<mgr, kept, otros>>

CallEsColorClaro ==
  /\ op = <<>>
  /\ \E a \in AnaTexts \cup AnaTriples :
       /\ op' = <<"es_color_claro">>
       /\ args' = <<a>>
       /\ ret' = es_color_claro(a)
  /\ UNCHANGED <<mgr, kept, otros>>

CallSugerirColorTexto ==
  /\ op = <<>>
  /\ \E a \in AnaTexts \cup AnaTriples :
       /\ op' = <<"sugerir_color_texto">>
       /\ args' = <<a>>
       /\ ret' = sugerir_color_texto(a)
  /\ UNCHANGED <<mgr, kept, otros>>

(* the method o of the manager called with the arguments a *)
llamada_pura(o, a) ==
  IF o = "generar_complementario" THEN generar_complementario(a[1])
  ELSE IF o = "generar_analogo"
    THEN generar_analogo(a[1], NumArg(Tail(a), DefaultAnalogo))
  ELSE IF o = "generar_triadico" THEN generar_triadico(a[1])
  ELSE IF o = "generar_tetradico" THEN generar_tetradico(a[1])
  ELSE IF o = "generar_monocromatico"
    THEN generar_monocromatico(a[1], NumArg(Tail(a), DefaultMonocromatico))
  ELSE IF o = "generar_armonico"
    THEN generar_armonico(a[1], NumArg(Tail(a), DefaultArmonico))
  ELSE IF o = "generar_esquema"
    THEN generar_esquema(a[1], a[2], NumArg(Tail(Tail(a)), DefaultEsquema))
  ELSE IF o = "calcular_contraste" THEN calcular_contraste(a[1], a[2])
  ELSE IF o = "es_color_claro" THEN es_color_claro(a[1])
  ELSE sugerir_color_texto(a[1])

CallPuro_Counting ==
  /\ op = <<>>
  /\ \E o \in PureOps :
       \E a \in PureArgs(o) :
         /\ op' = <<o>>
         /\ args' = a
         /\ ret' = llamada_pura(o, a)
  /\ next_combinacion_id' = next_combinacion_id + 1
  /\ UNCHANGED <<combinaciones_guardadas, kept, otros>>

(* a generator or an analysis method called on a manager that holds saved
   combinations: none of them reads or assigns an attribute of self *)
CallPuro ==
  /\ op = <<>>
  /\ \E o \in PureOps :
       \E a \in PureArgs(o) :
         /\ op' = <<o>>
         /\ args' = a
         /\ ret' = llamada_pura(o, a)
  /\ UNCHANGED <<mgr, kept, otros>>

GuardarCombinacion ==
  /\ op = <<>>
  /\ next_combinacion_id <= MaxSaved
  /\ \E n \in Nombres, c \in Guardables, t \in Ahora :
       /\ op' = <<"guardar_combinacion">>
       /\ args' = <<n, "Complementario", c>>
       /\ combinaciones_guardadas' =
            DictPut(combinaciones_guardadas, next_combinacion_id,
                    combinacion_nueva(next_combinacion_id, n,
                                      "Complementario", c, "", t))
       /\ next_combinacion_id' = next_combinacion_id + 1
       /\ ret' = Ok(combinacion_nueva(next_combinacion_id, n,
                                      "Complementario", c, "", t))
  /\ UNCHANGED <<kept, otros>>

(* combinaciones_guardadas after actualizar_combinacion(id, **kwargs) *)
actualizar_combinacion(guardadas, id, kwargs) ==
  IF id \in DOMAIN guardadas
  THEN DictPut(guardadas, id, actualizada(guardadas[id], kwargs))
  ELSE guardadas

ActualizarCombinacion ==
  /\ op = <<>>
  /\ \E id \in 1..(MaxSaved + 1), kw \in KwargsSet :
       /\ op' = <<"actualizar_combinacion">>
       /\ args' = <<id, kw>>
       /\ combinaciones_guardadas' =
            actualizar_combinacion(combinaciones_guardadas, id, kw)
       /\ ret' = Ok(id \in DOMAIN combinaciones_guardadas)
  /\ UNCHANGED <<next_combinacion_id, kept, otros>>

MarcarFavorito ==
  /\ op = <<>>
  /\ \E id \in 1..(MaxSaved + 1), favorito \in BOOLEAN :
       /\ op' = <<"marcar_favorito">>
       /\ args' = <<id, favorito>>
       /\ combinaciones_guardadas' =
            actualizar_combinacion(combinaciones_guardadas, id,
                                   [favorito |-> favorito])
       /\ ret' = Ok(id \in DOMAIN combinaciones_guardadas)
  /\ UNCHANGED <<next_combinacion_id, kept, otros>>

EliminarCombinacion ==
  /\ op = <<>>
  /\ \E id \in 1..(MaxSaved + 1) :
       /\ op' = <<"eliminar_combinacion">>
       /\ args' = <<id>>
       /\ combinaciones_guardadas' = DictDel(combinaciones_guardadas, id)
       /\ ret' = Ok(id \in DOMAIN combinaciones_guardadas)
  /\ UNCHANGED <<next_combinacion_id, kept, otros>>

(* Combinacion.from_dict: the keys descripcion, fecha_creacion and favorito
   are read with dict.get and a default *)
from_dict(data) ==
  [Combinacion(data.id_combinacion, data.nombre, data.tipo_esquema,
               data.colores_hex,
               IF "descripcion" \in DOMAIN data THEN data.descripcion ELSE "")
     EXCEPT !.fecha_creacion =
              IF "fecha_creacion" \in DOMAIN data THEN data.fecha_creacion
              ELSE NoDate,
            !.favorito =
              IF "favorito" \in DOMAIN data THEN data.favorito ELSE FALSE]

(* {c['id_combinacion']: Combinacion.from_dict(c) for c in lista[:n]}: a
   later entry replaces an earlier one of the same id *)
RECURSIVE combinaciones_cargadas(_, _)
combinaciones_cargadas(lista, n) ==
  IF n = 0 THEN <<>>
  ELSE DictPut(combinaciones_cargadas(lista, n - 1),
               lista[n].id_combinacion, from_dict(lista[n]))

(* datos.get('combinaciones', []) *)
lista_combinaciones(datos) ==
  IF "combinaciones" \in DOMAIN datos THEN datos.combinaciones ELSE <<>>

(* datos.get('contadores', {}).get('next_combinacion_id', 1) *)
contador_cargado(datos) ==
  IF "contadores" \in DOMAIN datos
     /\ "next_combinacion_id" \in DOMAIN datos.contadores
  THEN datos.contadores.next_combinacion_id
  ELSE 1

(* the JSON documents the file read by cargar_datos may hold: what
   guardar_datos wrote at some earlier moment, the to_dict() entries of the
   combinations stored then and the counter of then *)
NumArchivos == 4

Guardada(id, nombre) ==
  combinacion_nueva(id, nombre, "Complementario", <<NEGRO, BLANCO>>, "",
                    "2024-01-01 00:00:00")

Escrito(lista, contador) ==
  [combinaciones |-> lista,
   contadores |-> [next_combinacion_id |-> contador]]

ArchivoTable ==
  << Escrito(<<>>, 1),
     Escrito(<<Guardada(1, "Verano")>>, 2),
     Escrito(<<Guardada(1, "Verano"), Guardada(2, "Invierno")>>, 3),
     Escrito(<<Guardada(2, "Invierno")>>, 3),
     Escrito(<<>>, 2),
     Escrito(<<Guardada(1, "Invierno")>>, 3) >>

Archivos == {ArchivoTable[i] : i \in 1..NumArchivos}

(* cargar_datos: FileNotFoundError leaves the manager as it was and returns
   False; a document replaces the stored combinations and the counter *)
CargarDatos ==
  /\ op = <<>>
  /\ op' = <<"cargar_datos">>
  /\ \/ /\ args' = <<>>
        /\ ret' = Ok(FALSE)
        /\ UNCHANGED mgr
     \/ \E datos \in Archivos :
          /\ args' = <<datos>>
          /\ combinaciones_guardadas' =
               combinaciones_cargadas(lista_combinaciones(datos),
                                      Len(lista_combinaciones(datos)))
          /\ next_combinacion_id' = contador_cargado(datos)
          /\ ret' = Ok(TRUE)
  /\ UNCHANGED <<kept, otros>>

(* the caller remembers a call of eliminar_combinacion that deleted a
   combination *)
ReturnKeepingDeleted ==
  /\ op = <<"eliminar_combinacion">>
  /\ ret = Ok(TRUE)
  /\ kept' = [op |-> op, args |-> args, ret |-> ret]
  /\ op' = <<>>
  /\ args' = <<>>
  /\ ret' = None
  /\ UNCHANGED <<mgr, otros>>

(* the caller takes the result of a generator or an analysis method and
   keeps it *)
ReturnKeeping ==
  /\ op # <<>>
  /\ op[1] \in PureOps
  /\ kept' = [op |-> op, args |-> args, ret |-> ret]
  /\ op' = <<>>
  /\ args' = <<>>
  /\ ret' = None
  /\ UNCHANGED <<mgr, otros>>

(* the caller takes the result (or the exception) and is free to call again *)
Return ==
  /\ op # <<>>
  /\ op' = <<>>
  /\ args' = <<>>
  /\ ret' = None
  /\ UNCHANGED <<mgr, kept, otros>>

(* ColorRGB.from_hsv and ColorRGB.from_hls called on a tuple of floats of
   [0, 1] *)
NumUnits == 6

UnitTable ==
  <<F0_0, F1_0, ONE_THIRD, F0_5, F0_7, Normalize(52), F0_2, TWO_THIRD,
    Normalize(1), F0_1>>

Units == {UnitTable[i] : i \in 1..NumUnits}

FromHsv ==
  /\ op = <<>>
  /\ \E h \in Units, s \in Units, v \in Units :
       /\ op' = <<"from_hsv">>
       /\ args' = <<h, s, v>>
       /\ ret' = Ok(from_hsv(h, s, v))
  /\ UNCHANGED <<mgr, kept, otros>>

FromHls ==
  /\ op = <<>>
  /\ \E h \in Units, l \in Units, s \in Units :
       /\ op' = <<"from_hls">>
       /\ args' = <<h, l, s>>
       /\ ret' = Ok(from_hls(h, l, s))
  /\ UNCHANGED <<mgr, kept, otros>>

NextUnit == FromHsv \/ FromHls \/ Return

SpecUnit == Init /\ [][NextUnit]_vars

----------------------------------------------------------------------------
(* modgescli: class Cliente and class ClientesManager.  A str that the code
   strips is a tuple of characters; the other strings are taken whole. *)

(* str.strip() *)
strip(str) == RStripSpace(LStripSpace(str))

(* Cliente.__init__; ahora is datetime.now() formatted *)
Cliente(id_cliente, nombre, telefono, email, direccion, ahora) ==
  [id_cliente |-> id_cliente, nombre |-> nombre, telefono |-> telefono,
   email |-> email, direccion |-> direccion, fecha_registro |-> ahora,
   activo |-> TRUE, notas |-> "",
   preferencias |-> [colores_favoritos |-> <<>>,
                     disenos_favoritos |-> <<>>,
                     tipo_bolsa_preferido |-> ""],
   historial_compras |-> <<>>, total_compras |-> F0_0, numero_pedidos |-> 0]

(* the order count left as it was *)
agregar_compra_NoCount(cliente, id_pedido, monto, ahora) ==
  [cliente EXCEPT
     !.historial_compras =
        Append(@, [id_pedido |-> id_pedido, monto |-> monto, fecha |-> ahora]),
     !.total_compras = FAdd(@, monto)]

(* Cliente.agregar_compra *)
agregar_compra(cliente, id_pedido, monto, ahora) ==
  [cliente EXCEPT
     !.historial_compras =
        Append(@, [id_pedido |-> id_pedido, monto |-> monto, fecha |-> ahora]),
     !.total_compras = FAdd(@, monto),
     !.numero_pedidos = @ + 1]

(* lista.append(x) unless x is in lista *)
agregar_si_falta(lista, x) ==
  IF \E i \in 1..Len(lista) : lista[i] = x THEN lista ELSE Append(lista, x)

(* Cliente.agregar_preferencia_color / agregar_preferencia_diseno /
   establecer_tipo_bolsa_preferido *)
agregar_preferencia_color(cliente, id_color) ==
  [cliente EXCEPT
     !.preferencias.colores_favoritos = agregar_si_falta(@, id_color)]

agregar_preferencia_diseno(cliente, id_diseno) ==
  [cliente EXCEPT
     !.preferencias.disenos_favoritos = agregar_si_falta(@, id_diseno)]

establecer_tipo_bolsa_preferido(cliente, tipo) ==
  [cliente EXCEPT !.preferencias.tipo_bolsa_preferido = tipo]

(* what a call of a manager method leaves: self.clientes, the counter and
   the value returned or the exception raised *)
Deja(d, n, r) == [clientes |-> d, next_cliente_id |-> n, ret |-> r]

NombreVacio == Raise("ValueError", "El nombre del cliente no puede estar vacío")

MontoNegativo == Raise("ValueError", "El monto no puede ser negativo")

(* ClientesManager.agregar_cliente with telefono, email and direccion left
   at their default "" *)
agregar_cliente(d, n, nombre, ahora) ==
  IF nombre = <<>> \/ strip(nombre) = <<>>
  THEN Deja(d, n, NombreVacio)
  ELSE Deja(DictPut(d, n, Cliente(n, strip(nombre), strip(<<>>), strip(<<>>),
                                  strip(<<>>), ahora)),
            n + 1,
            Ok(Cliente(n, strip(nombre), strip(<<>>), strip(<<>>),
                       strip(<<>>), ahora)))

campos_permitidos_cliente ==
  {"nombre", "telefono", "email", "direccion", "notas"}

(* the setattr loop of actualizar_cliente *)
cliente_actualizado(cliente, kwargs) ==
  [f \in DOMAIN cliente |->
     IF f \in DOMAIN kwargs \cap campos_permitidos_cliente THEN kwargs[f]
     ELSE cliente[f]]

actualizar_cliente(d, n, id_cliente, kwargs) ==
  IF id_cliente \notin DOMAIN d THEN Deja(d, n, Ok(FALSE))
  ELSE Deja(DictPut(d, id_cliente, cliente_actualizado(d[id_cliente], kwargs)),
            n, Ok(TRUE))

(* the client removed from the dict *)
desactivar_cliente_Deleting(d, n, id_cliente) ==
  IF id_cliente \notin DOMAIN d THEN Deja(d, n, Ok(FALSE))
  ELSE Deja(DictDel(d, id_cliente), n, Ok(TRUE))

desactivar_cliente(d, n, id_cliente) ==
  IF id_cliente \notin DOMAIN d THEN Deja(d, n, Ok(FALSE))
  ELSE Deja(DictPut(d, id_cliente, [d[id_cliente] EXCEPT !.activo = FALSE]),
            n, Ok(TRUE))

reactivar_cliente(d, n, id_cliente) ==
  IF id_cliente \notin DOMAIN d THEN Deja(d, n, Ok(FALSE))
  ELSE Deja(DictPut(d, id_cliente, [d[id_cliente] EXCEPT !.activo = TRUE]),
            n, Ok(TRUE))

eliminar_cliente(d, n, id_cliente) ==
  IF id_cliente \in DOMAIN d THEN Deja(DictDel(d, id_cliente), n, Ok(TRUE))
  ELSE Deja(d, n, Ok(FALSE))

(* the three preference setters of the manager *)
preferencia_color(d, n, id_cliente, id_color) ==
  IF id_cliente \notin DOMAIN d THEN Deja(d, n, Ok(FALSE))
  ELSE Deja(DictPut(d, id_cliente,
                    agregar_preferencia_color(d[id_cliente], id_color)),
            n, Ok(TRUE))

preferencia_diseno(d, n, id_cliente, id_diseno) ==
  IF id_cliente \notin DOMAIN d THEN Deja(d, n, Ok(FALSE))
  ELSE Deja(DictPut(d, id_cliente,
                    agregar_preferencia_diseno(d[id_cliente], id_diseno)),
            n, Ok(TRUE))

tipo_bolsa_preferido(d, n, id_cliente, tipo) ==
  IF id_cliente \notin DOMAIN d THEN Deja(d, n, Ok(FALSE))
  ELSE Deja(DictPut(d, id_cliente,
                    establecer_tipo_bolsa_preferido(d[id_cliente], tipo)),
            n, Ok(TRUE))

(* the amount checked before the client is looked up *)
registrar_compra_CheckFirst(d, n, id_cliente, id_pedido, monto, ahora) ==
  IF FLt(monto, F0_0) THEN Deja(d, n, MontoNegativo)
  ELSE IF id_cliente \notin DOMAIN d THEN Deja(d, n, Ok(FALSE))
  ELSE Deja(DictPut(d, id_cliente,
                    agregar_compra(d[id_cliente], id_pedido, monto, ahora)),
            n, Ok(TRUE))

registrar_compra(d, n, id_cliente, id_pedido, monto, ahora) ==
  IF id_cliente \notin DOMAIN d THEN Deja(d, n, Ok(FALSE))
  ELSE IF FLt(monto, F0_0) THEN Deja(d, n, MontoNegativo)
  ELSE Deja(DictPut(d, id_cliente,
                    agregar_compra(d[id_cliente], id_pedido, monto, ahora)),
            n, Ok(TRUE))

(* list(self.clientes.values()) for ids below n, in the order of the ids,
   which is the order of insertion *)
RECURSIVE valores(_, _)
valores(d, n) ==
  IF n = 0 THEN <<>>
  ELSE IF n \in DOMAIN d THEN Append(valores(d, n - 1), d[n])
  ELSE valores(d, n - 1)

EsActivo(c) == c.activo

obtener_cliente(d, id_cliente) ==
  IF id_cliente \in DOMAIN d THEN Ok(d[id_cliente]) ELSE None

listar_clientes(d, n, solo_activos) ==
  IF solo_activos THEN SelectSeq(valores(d, n), EsActivo) ELSE valores(d, n)

obtener_clientes_por_preferencia_color(d, n, id_color) ==
  SelectSeq(valores(d, n),
            LAMBDA c : (\E i \in 1..Len(c.preferencias.colores_favoritos) :
                          c.preferencias.colores_favoritos[i] = id_color)
                       /\ c.activo)

obtener_clientes_por_preferencia_diseno(d, n, id_diseno) ==
  SelectSeq(valores(d, n),
            LAMBDA c : (\E i \in 1..Len(c.preferencias.disenos_favoritos) :
                          c.preferencias.disenos_favoritos[i] = id_diseno)
                       /\ c.activo)

obtener_clientes_por_tipo_bolsa(d, n, tipo_bolsa) ==
  SelectSeq(valores(d, n),
            LAMBDA c : c.preferencias.tipo_bolsa_preferido = tipo_bolsa
                       /\ c.activo)

(* sorted(lista, key=..., reverse=True) by insertion: x goes before the
   first element whose key is smaller, so equal keys keep their order *)
RECURSIVE insertar_total(_, _)
insertar_total(lista, x) ==
  IF lista = <<>> THEN <<x>>
  ELSE IF FLt(Head(lista).total_compras, x.total_compras)
    THEN <<x>> \o lista
  ELSE <<Head(lista)>> \o insertar_total(Tail(lista), x)

RECURSIVE por_total(_, _)
por_total(lista, k) ==
  IF k = 0 THEN <<>> ELSE insertar_total(por_total(lista, k - 1), lista[k])

RECURSIVE insertar_pedidos(_, _)
insertar_pedidos(lista, x) ==
  IF lista = <<>> THEN <<x>>
  ELSE IF Head(lista).numero_pedidos < x.numero_pedidos THEN <<x>> \o lista
  ELSE <<Head(lista)>> \o insertar_pedidos(Tail(lista), x)

RECURSIVE por_pedidos(_, _)
por_pedidos(lista, k) ==
  IF k = 0 THEN <<>> ELSE insertar_pedidos(por_pedidos(lista, k - 1), lista[k])

(* lista[:limite] for limite >= 0 *)
primeros(lista, limite) ==
  SubSeq(lista, 1, IF limite < Len(lista) THEN limite ELSE Len(lista))

DefaultLimite == 10

obtener_mejores_clientes(d, n, limite) ==
  primeros(por_total(listar_clientes(d, n, TRUE),
                     Len(listar_clientes(d, n, TRUE))), limite)

obtener_clientes_frecuentes(d, n, limite) ==
  primeros(por_pedidos(listar_clientes(d, n, TRUE),
                       Len(listar_clientes(d, n, TRUE))), limite)

obtener_total_clientes(d) ==
  [total |-> Cardinality(DOMAIN d),
   activos |-> Cardinality({k \in DOMAIN d : d[k].activo}),
   inactivos |-> Cardinality({k \in DOMAIN d : ~d[k].activo})]

(* inputs of the clients manager *)
MaxClientes == 1
MaxCompras == 2

NombresCliente ==
  {<<"A", "n", "a">>, <<" ", "A", "n", "a", "\t">>, <<>>, <<" ", "\n">>}

Montos == {F0_1, F0_2, FNeg(F0_1)}

Pedidos == {101}

IdsCliente == 1..(MaxClientes + 1)

KwargsCliente ==
  {[nombre |-> <<>>],
   [notas |-> "vip", total_compras |-> FNeg(F0_1), numero_pedidos |-> 7,
    activo |-> FALSE]}

(* the call o of the manager leaves the record deja *)
Llamada(o, a, deja) ==
  /\ op = <<>>
  /\ op' = <<o>>
  /\ args' = a
  /\ clientes' = deja.clientes
  /\ next_cliente_id' = deja.next_cliente_id
  /\ ret' = deja.ret
  /\ UNCHANGED <<mgr, kept, hilos>>

AgregarCliente ==
  /\ next_cliente_id <= MaxClientes
  /\ \E nombre \in NombresCliente, ahora \in Ahora :
       Llamada("agregar_cliente", <<nombre>>,
               agregar_cliente(clientes, next_cliente_id, nombre, ahora))

ActualizarCliente ==
  \E id \in IdsCliente, kw \in KwargsCliente :
    Llamada("actualizar_cliente", <<id, kw>>,
            actualizar_cliente(clientes, next_cliente_id, id, kw))

DesactivarCliente ==
  \E id \in IdsCliente :
    Llamada("desactivar_cliente", <<id>>,
            desactivar_cliente(clientes, next_cliente_id, id))

ReactivarCliente ==
  \E id \in IdsCliente :
    Llamada("reactivar_cliente", <<id>>,
            reactivar_cliente(clientes, next_cliente_id, id))

EliminarCliente ==
  \E id \in IdsCliente :
    Llamada("eliminar_cliente", <<id>>,
            eliminar_cliente(clientes, next_cliente_id, id))

AgregarPreferenciaColor ==
  \E id \in IdsCliente :
    Llamada("agregar_preferencia_color", <<id, 7>>,
            preferencia_color(clientes, next_cliente_id, id, 7))

AgregarPreferenciaDiseno ==
  \E id \in IdsCliente :
    Llamada("agregar_preferencia_diseno", <<id, 3>>,
            preferencia_diseno(clientes, next_cliente_id, id, 3))

EstablecerTipoBolsa ==
  \E id \in IdsCliente :
    Llamada("establecer_tipo_bolsa_preferido", <<id, "Simple">>,
            tipo_bolsa_preferido(clientes, next_cliente_id, id, "Simple"))

(* a client takes at most MaxCompras purchases *)
RegistrarCompra ==
  \E id \in IdsCliente, pedido \in Pedidos, monto \in Montos, ahora \in Ahora :
    /\ id \in DOMAIN clientes => clientes[id].numero_pedidos < MaxCompras
    /\ Llamada("registrar_compra", <<id, pedido, monto>>,
               registrar_compra(clientes, next_cliente_id, id, pedido, monto,
                                ahora))

(* data.get(key, default) *)
dict_get(data, key, default) ==
  IF key \in DOMAIN data THEN data[key] ELSE default

(* Cliente.from_dict *)
cliente_from_dict(data, ahora) ==
  [Cliente(data.id_cliente, data.nombre, dict_get(data, "telefono", <<>>),
           dict_get(data, "email", <<>>), dict_get(data, "direccion", <<>>),
           ahora)
     EXCEPT !.fecha_registro = dict_get(data, "fecha_registro", ahora),
            !.activo = dict_get(data, "activo", TRUE),
            !.notas = dict_get(data, "notas", ""),
            !.preferencias = dict_get(data, "preferencias", @),
            !.historial_compras = dict_get(data, "historial_compras", <<>>),
            !.total_compras = dict_get(data, "total_compras", F0_0),
            !.numero_pedidos = dict_get(data, "numero_pedidos", 0)]

(* {c['id_cliente']: Cliente.from_dict(c) for c in lista[:n]} *)
RECURSIVE clientes_cargados(_, _, _)
clientes_cargados(lista, n, ahora) ==
  IF n = 0 THEN <<>>
  ELSE DictPut(clientes_cargados(lista, n - 1, ahora), lista[n].id_cliente,
               cliente_from_dict(lista[n], ahora))

(* ClientesManager.cargar_clientes on the document datos *)
cargar_clientes(datos, ahora) ==
  Deja(clientes_cargados(dict_get(datos, "clientes", <<>>),
                         Len(dict_get(datos, "clientes", <<>>)), ahora),
       dict_get(dict_get(datos, "contadores", <<>>), "next_cliente_id", 1),
       Ok(TRUE))

(* the documents the file read by cargar_clientes may hold: what
   guardar_clientes wrote at some earlier moment, the to_dict() entries of
   the clients of then, which have the attributes of a Cliente as keys, and
   the counter of then *)
NumArchivosClientes == 2

Registrado(id, nombre) ==
  Cliente(id, nombre, <<>>, <<>>, <<>>, "2023-12-31 00:00:00")

ArchivoClientesTable ==
  << [clientes |-> <<agregar_compra(Registrado(1, <<"E", "v", "a">>), 100,
                                    F0_2, "2023-12-31 00:00:00")>>,
      contadores |-> [next_cliente_id |-> 2]],
     [clientes |-> <<>>, contadores |-> [next_cliente_id |-> 1]],
     [clientes |-> <<Registrado(2, <<"E", "v", "a">>)>>,
      contadores |-> [next_cliente_id |-> 3]] >>

ArchivosClientes ==
  {ArchivoClientesTable[i] : i \in 1..NumArchivosClientes}

(* cargar_clientes: FileNotFoundError leaves the manager as it was and
   returns False *)
CargarClientes ==
  \/ Llamada("cargar_clientes", <<>>,
             Deja(clientes, next_cliente_id, Ok(FALSE)))
  \/ \E datos \in ArchivosClientes, ahora \in Ahora :
       Llamada("cargar_clientes", <<datos>>, cargar_clientes(datos, ahora))

NextCompras ==
  \/ AgregarCliente
  \/ RegistrarCompra
  \/ ActualizarCliente
  \/ EliminarCliente
  \/ CargarClientes
  \/ Return

SpecCompras == Init /\ [][NextCompras]_vars

NextActivos ==
  \/ AgregarCliente
  \/ RegistrarCompra
  \/ DesactivarCliente
  \/ ReactivarCliente
  \/ EliminarCliente
  \/ AgregarPreferenciaColor
  \/ AgregarPreferenciaDiseno
  \/ EstablecerTipoBolsa
  \/ Return

SpecActivos == Init /\ [][NextActivos]_vars

----------------------------------------------------------------------------
(* Two callers on the same manager, each in one call of guardar_combinacion
   or of agregar_cliente.  Neither method takes a lock, so the callers
   interleave between the statements of the method and between the read and
   the write of "+= 1":
     crear      the id is read and the Combinacion / Cliente is built with it
     almacenar  the object is stored under the id read again at that moment
     leer       the counter is read for "+= 1"
     escribir   the counter is written, and the object is returned *)

NombreDe(t) == IF t = 1 THEN "Verano" ELSE "Invierno"

ClienteDe(t) == IF t = 1 THEN <<"A", "n", "a">> ELSE <<"E", "v", "a">>

(* caller t moves to position pc with its local variables nuevo and leido *)
Avanza(t, pc, nuevo, leido) ==
  hilos' = [hilos EXCEPT ![t] = [@ EXCEPT !.pc = pc, !.nuevo = nuevo,
                                          !.leido = leido]]

Empezar(t) ==
  /\ op = <<>>
  /\ hilos[t].pc = "fuera"
  /\ \E llamada \in {"guardar_combinacion", "agregar_cliente"} :
       /\ \A u \in Hilos : hilos[u].llamada \in {"", llamada}
       /\ hilos' = [hilos EXCEPT ![t] = [@ EXCEPT !.pc = "crear",
                                                 !.llamada = llamada]]
  /\ UNCHANGED <<op, args, ret, mgr, kept, cli>>

(* guardar_combinacion, lines 258-265 *)
CrearCombinacion(t) ==
  /\ hilos[t].pc = "crear"
  /\ hilos[t].llamada = "guardar_combinacion"
  /\ \E ahora \in Ahora :
       Avanza(t, "almacenar",
              <<combinacion_nueva(next_combinacion_id, NombreDe(t),
                                  "Complementario", <<NEGRO, BLANCO>>, "",
                                  ahora)>>,
              0)
  /\ UNCHANGED <<op, args, ret, mgr, kept, cli>>

(* line 267 *)
AlmacenarCombinacion(t) ==
  /\ hilos[t].pc = "almacenar"
  /\ hilos[t].llamada = "guardar_combinacion"
  /\ combinaciones_guardadas' =
       DictPut(combinaciones_guardadas, next_combinacion_id, hilos[t].nuevo[1])
  /\ Avanza(t, "leer", hilos[t].nuevo, 0)
  /\ UNCHANGED <<op, args, ret, next_combinacion_id, kept, cli>>

(* line 268, the read *)
LeerContadorCombinacion(t) ==
  /\ hilos[t].pc = "leer"
  /\ hilos[t].llamada = "guardar_combinacion"
  /\ Avanza(t, "escribir", hilos[t].nuevo, next_combinacion_id)
  /\ UNCHANGED <<op, args, ret, mgr, kept, cli>>

(* line 268, the write, and line 270 *)
EscribirContadorCombinacion(t) ==
  /\ hilos[t].pc = "escribir"
  /\ hilos[t].llamada = "guardar_combinacion"
  /\ next_combinacion_id' = hilos[t].leido + 1
  /\ Avanza(t, "listo", hilos[t].nuevo, hilos[t].leido)
  /\ UNCHANGED <<op, args, ret, combinaciones_guardadas, kept, cli>>

(* agregar_cliente, lines 116-120, with a name that is not blank *)
CrearCliente(t) ==
  /\ hilos[t].pc = "crear"
  /\ hilos[t].llamada = "agregar_cliente"
  /\ \E ahora \in Ahora :
       Avanza(t, "almacenar",
              <<Cliente(next_cliente_id, strip(ClienteDe(t)), strip(<<>>),
                        strip(<<>>), strip(<<>>), ahora)>>,
              0)
  /\ UNCHANGED <<op, args, ret, mgr, kept, cli>>

(* line 121 *)
AlmacenarCliente(t) ==
  /\ hilos[t].pc = "almacenar"
  /\ hilos[t].llamada = "agregar_cliente"
  /\ clientes' = DictPut(clientes, next_cliente_id, hilos[t].nuevo[1])
  /\ Avanza(t, "leer", hilos[t].nuevo, 0)
  /\ UNCHANGED <<op, args, ret, mgr, kept, next_cliente_id>>

(* line 122, the read *)
LeerContadorCliente(t) ==
  /\ hilos[t].pc = "leer"
  /\ hilos[t].llamada = "agregar_cliente"
  /\ Avanza(t, "escribir", hilos[t].nuevo, next_cliente_id)
  /\ UNCHANGED <<op, args, ret, mgr, kept, cli>>

(* line 122, the write, and line 123 *)
EscribirContadorCliente(t) ==
  /\ hilos[t].pc = "escribir"
  /\ hilos[t].llamada = "agregar_cliente"
  /\ next_cliente_id' = hilos[t].leido + 1
  /\ Avanza(t, "listo", hilos[t].nuevo, hilos[t].leido)
  /\ UNCHANGED <<op, args, ret, mgr, kept, clientes>>

NextHilos ==
  \E t \in Hilos :
    \/ Empezar(t)
    \/ CrearCombinacion(t)
    \/ AlmacenarCombinacion(t)
    \/ LeerContadorCombinacion(t)
    \/ EscribirContadorCombinacion(t)
    \/ CrearCliente(t)
    \/ AlmacenarCliente(t)
    \/ LeerContadorCliente(t)
    \/ EscribirContadorCliente(t)

SpecHilos == Init /\ [][NextHilos]_vars

NextStore ==
  \/ GuardarCombinacion
  \/ ActualizarCombinacion
  \/ MarcarFavorito
  \/ EliminarCombinacion
  \/ CargarDatos
  \/ ReturnKeepingDeleted
  \/ Return

SpecStore == Init /\ [][NextStore]_vars

NextHex == CallFromHex \/ CallColorRGB \/ CallToHex \/ Return

SpecHex == Init /\ [][NextHex]_vars

NextConv == CallColorRGB \/ CallToHsv \/ CallFromHsv \/ Return

SpecConv == Init /\ [][NextConv]_vars

Next ==
  \/ CallComplementario
  \/ CallAnalogo
  \/ CallTriadico
  \/ CallTetradico
  \/ CallMonocromatico
  \/ CallArmonico
  \/ CallEsquema
  \/ Return

Spec == Init /\ [][Next]_vars

NextAna == CallContraste \/ CallEsColorClaro \/ CallSugerirColorTexto \/ Return

SpecAna == Init /\ [][NextAna]_vars

NextMgr ==
  \/ CallPuro
  \/ GuardarCombinacion
  \/ ActualizarCombinacion
  \/ MarcarFavorito
  \/ EliminarCombinacion
  \/ ReturnKeeping
  \/ Return

SpecMgr == Init /\ [][NextMgr]_vars

(* every operation that takes a hex colour *)
NextAll == Next \/ NextAna

SpecAll == Init /\ [][NextAll]_vars

----------------------------------------------------------------------------
(* properties *)

(* a valid hex string: 6 hexadecimal digits of either case, with or without
   one leading '#' *)
HexBody(h) == IF Len(h) > 0 /\ h[1] = "#" THEN Tail(h) ELSE h

ValidHex(h) ==
  Len(HexBody(h)) = 6 /\ \A i \in 1..6 : DigitValue(HexBody(h)[i]) >= 0

(* '#' and the six digits in uppercase *)
Normalized(h) ==
  <<"#">> \o [i \in 1..6 |-> HexUpper[DigitValue(HexBody(h)[i]) + 1]]

(* what the clamp of a channel is to be *)
Clamped(x) == IF x < 0 THEN 0 ELSE IF x > 255 THEN 255 ELSE x

Abs(x) == IF x < 0 THEN -x ELSE x

(* C1: for every valid hex string h, from_hex(h) returns a colour and
   from_hex(h).to_hex() is the normalized form of h: '#' and the same six
   digits in uppercase. *)
C1_HexRoundTrip ==
  /\ (op = <<"from_hex">> /\ ValidHex(args[1])) => ret.ok
  /\ (op = <<"from_hex", "to_hex">> /\ ValidHex(args[1]))
       => ret = Ok(Normalized(args[1]))

C1_Witness ==
  /\ op = <<"from_hex", "to_hex">>
  /\ args[1] = <<"#", "3", "a", "f", "f", "A", "B">>
  /\ ret.val = <<"#", "3", "A", "F", "F", "A", "B">>

(* C2: from_hex returns a colour for the valid hex strings only, and fails
   with the invalid-format error (a ValueError) for every other input. *)
C2_RejectsMalformed ==
  op = <<"from_hex">> =>
    IF ValidHex(args[1]) THEN ret.ok
    ELSE ~ret.ok /\ ret.exc.type = "ValueError"

(* C3: ColorRGB(r, g, b) holds each channel clamped to 0..255, and to_hex()
   of it is '#' followed by two uppercase hexadecimal digits per clamped
   channel, 7 characters in all. *)
C3_ClampedHex ==
  /\ op = <<"ColorRGB">> =>
       ret.val = [r |-> Clamped(args[1]), g |-> Clamped(args[2]),
                  b |-> Clamped(args[3])]
  /\ op = <<"ColorRGB", "to_hex">> =>
       /\ Len(ret.val) = 7
       /\ ret.val[1] = "#"
       /\ \A k \in 1..3 :
            /\ ret.val[2 * k] = HexUpper[(Clamped(args[k]) \div 16) + 1]
            /\ ret.val[2 * k + 1] = HexUpper[(Clamped(args[k]) % 16) + 1]

C3_Witness ==
  /\ op = <<"ColorRGB", "to_hex">>
  /\ args[1] < 0
  /\ args[2] > 255
  /\ args[3] \in 1..15
  /\ Len(ret.val) = 7

(* C4: for every colour c with channels in 0..255, from_hsv applied to the
   tuple c.to_hsv() differs from c by at most 1 in each channel. *)
C4_HsvRoundTrip ==
  op = <<"ColorRGB", "to_hsv", "from_hsv">> =>
    /\ Abs(ret.val.r - Clamped(args[1])) <= 1
    /\ Abs(ret.val.g - Clamped(args[2])) <= 1
    /\ Abs(ret.val.b - Clamped(args[3])) <= 1

(* a round trip that loses one unit in a channel *)
C4_Witness ==
  /\ op = <<"ColorRGB", "to_hsv", "from_hsv">>
  /\ \A k \in 1..3 : args[k] \in 0..255
  /\ ret.val.g = args[2] - 1

(* the colour a '#RRGGBB' string stands for, read digit by digit *)
Chan(x, k) == 16 * DigitValue(x[2 * k]) + DigitValue(x[2 * k + 1])

Decoded(x) == [r |-> Chan(x, 1), g |-> Chan(x, 2), b |-> Chan(x, 3)]

BaseColor(h) == Decoded(Normalized(h))

MaxC(c) ==
  IF c.r >= c.g /\ c.r >= c.b THEN c.r ELSE IF c.g >= c.b THEN c.g ELSE c.b

MinC(c) ==
  IF c.r <= c.g /\ c.r <= c.b THEN c.r ELSE IF c.g <= c.b THEN c.g ELSE c.b

IsGrey(c) == c.r = c.g /\ c.g = c.b

(* the hue of a colour as the exact fraction HueNum / HueDen of the circle;
   a grey has hue 0 *)
HueDen(c) == IF IsGrey(c) THEN 1 ELSE 6 * (MaxC(c) - MinC(c))

HueNum(c) ==
  IF IsGrey(c) THEN 0
  ELSE IF c.r = MaxC(c) THEN (c.g - c.b) % HueDen(c)
  ELSE IF c.g = MaxC(c) THEN 2 * (MaxC(c) - MinC(c)) + (c.b - c.r)
  ELSE 4 * (MaxC(c) - MinC(c)) + (c.r - c.g)

(* the hues of a and b are half a turn apart, to within a sixth of a turn:
   their difference is between 1/3 and 2/3 *)
HueOpposite(a, b) ==
  /\ HueDen(a) * HueDen(b)
       <= 3 * Abs(HueNum(a) * HueDen(b) - HueNum(b) * HueDen(a))
  /\ 3 * Abs(HueNum(a) * HueDen(b) - HueNum(b) * HueDen(a))
       <= 2 * HueDen(a) * HueDen(b)

(* the hex of hue (h + 0.5) mod 1 with the saturation and value of hsv *)
HalfTurnHex(hsv) == HsvHex(FMod1(FAdd(hsv.h, F0_5)), hsv.s, hsv.v)

(* C5: for every valid base, generar_complementario returns exactly 2
   entries, the input string itself and the hex of hue (h + 0.5) mod 1 with
   the base's saturation and value; when the base is not a grey the decoded
   hue of the second entry is offset by 0.5 from the base's hue to within
   1/6 of the circle, and when the base is a grey (no hue) the second entry
   is the same grey. *)
C5_Complementary ==
  (op = <<"generar_complementario">> /\ ValidHex(args[1])) =>
    /\ ret.ok
    /\ Len(ret.val) = 2
    /\ ret.val[1] = args[1]
    /\ ret.val[2] = HalfTurnHex(to_hsv(BaseColor(args[1])))
    /\ IF IsGrey(BaseColor(args[1]))
       THEN ret.val[2] = Normalized(args[1])
       ELSE HueOpposite(BaseColor(args[1]), Decoded(ret.val[2]))

C5_Witness ==
  /\ op = <<"generar_complementario">>
  /\ args[1] = <<"#", "3", "4", "9", "8", "D", "B">>
  /\ ret.val = <<args[1], <<"#", "D", "B", "7", "6", "3", "4">>>>

(* C5 as stated: the decoded hue of the second entry is offset by about 0.5
   from the base's hue for every valid base *)
C5_AsStated ==
  (op = <<"generar_complementario">> /\ ValidHex(args[1])) =>
    /\ ret.ok
    /\ Len(ret.val) = 2
    /\ ret.val[1] = args[1]
    /\ ret.val[2] = HalfTurnHex(to_hsv(BaseColor(args[1])))
    /\ HueOpposite(BaseColor(args[1]), Decoded(ret.val[2]))

(* C6: for every valid base, generar_triadico returns a list of exactly 3
   and generar_tetradico a list of exactly 4, and in both the first element
   is the input base string exactly as given. *)
C6_TriadicTetradic ==
  /\ (op = <<"generar_triadico">> /\ ValidHex(args[1])) =>
       ret.ok /\ Len(ret.val) = 3 /\ ret.val[1] = args[1]
  /\ (op = <<"generar_tetradico">> /\ ValidHex(args[1])) =>
       ret.ok /\ Len(ret.val) = 4 /\ ret.val[1] = args[1]

(* a base that is not in normalized form comes back as it was given *)
C6_Witness ==
  /\ op = <<"generar_triadico">>
  /\ args[1] = <<"f", "f", "0", "0", "0", "0">>
  /\ Len(ret.val) = 3
  /\ ret.val[1] = args[1]

(* the num_colores a call of a generator runs with *)
CountGiven(k, default) == IF Len(args) >= k THEN args[k] ELSE default

(* 30 degrees times ceil(i / 2), as a fraction of the circle *)
AnalogOffset(i) == FMul(FDiv(FInt(30), FInt(360)), FInt((i + 1) \div 2))

AnalogHex(hsv, i) ==
  HsvHex(IF i % 2 = 1 THEN FMod1(FAdd(hsv.h, AnalogOffset(i)))
         ELSE FMod1(FSub(hsv.h, AnalogOffset(i))),
         hsv.s, hsv.v)

(* C7: for every valid base and count >= 1, generar_analogo returns exactly
   count colours, element 0 is the base, and for i = 1..count-1 element i is
   the hex of the base's saturation and value with hue
   (h + 30deg * ceil(i/2)) mod 1 for odd i and (h - 30deg * ceil(i/2)) mod 1
   for even i. *)
C7_Analogous ==
  (/\ op = <<"generar_analogo">>
   /\ ValidHex(args[1])
   /\ CountGiven(2, DefaultAnalogo) >= 1) =>
    /\ ret.ok
    /\ Len(ret.val) = CountGiven(2, DefaultAnalogo)
    /\ ret.val[1] = args[1]
    /\ \A i \in 1..(CountGiven(2, DefaultAnalogo) - 1) :
         ret.val[i + 1] = AnalogHex(to_hsv(BaseColor(args[1])), i)

(* offsets +30, -30, +60, -60 from the hue of #3498DB *)
C7_Witness ==
  /\ op = <<"generar_analogo">>
  /\ args = <<<<"#", "3", "4", "9", "8", "D", "B">>, 5>>
  /\ ret.val = <<args[1],
                 <<"#", "3", "4", "4", "4", "D", "B">>,
                 <<"#", "3", "4", "D", "B", "C", "A">>,
                 <<"#", "7", "6", "3", "4", "D", "B">>,
                 <<"#", "3", "4", "D", "B", "7", "7">>>>

(* lightness 0.2 + 0.7 * i / (count - 1) *)
MonoLightness(i, n) == FAdd(F0_2, FDiv(FMul(F0_7, FInt(i)), FInt(n - 1)))

MonoHex(hls, i, n) == HlsHex(hls.h, MonoLightness(i, n), hls.s)

(* the lightness decoded back from a returned hex value *)
DecodedLightness(x) == to_hls(Decoded(x)).l

(* what C8 says of the list a call of generar_monocromatico returned *)
DarkestToLightest(n) ==
  /\ ret.ok
  /\ Len(ret.val) = n
  /\ \A k \in 1..n :
       ret.val[k] = MonoHex(to_hls(BaseColor(args[1])), k - 1, n)
  /\ \A k \in 1..(n - 1) :
       FLt(DecodedLightness(ret.val[k]), DecodedLightness(ret.val[k + 1]))

(* C8: for every valid base and count from 2 to 179, generar_monocromatico
   returns exactly count colours, element i built from the base's HLS hue
   and saturation with lightness 0.2 + 0.7 * i / (count - 1), and the
   lightness decoded back from the returned hex values is strictly
   increasing along the list. *)
C8_Monochromatic ==
  (/\ op = <<"generar_monocromatico">>
   /\ ValidHex(args[1])
   /\ CountGiven(2, DefaultMonocromatico) \in 2..LongCount) =>
    DarkestToLightest(CountGiven(2, DefaultMonocromatico))

C8_Witness ==
  /\ op = <<"generar_monocromatico">>
  /\ args = <<<<"#", "3", "4", "9", "8", "D", "B">>, 4>>
  /\ ret.val = << <<"#", "0", "F", "3", "A", "5", "6">>,
                  <<"#", "2", "1", "7", "D", "B", "B">>,
                  <<"#", "6", "E", "B", "5", "E", "5">>,
                  <<"#", "D", "3", "E", "9", "F", "7">> >>

(* C8 as stated: the same for every count >= 2 *)
C8_AsStated ==
  (/\ op = <<"generar_monocromatico">>
   /\ ValidHex(args[1])
   /\ CountGiven(2, DefaultMonocromatico) >= 2) =>
    DarkestToLightest(CountGiven(2, DefaultMonocromatico))

(* x clamped into [lo, 1.0] *)
ClampedInto(lo, x) ==
  IF FLt(x, lo) THEN lo ELSE IF FLt(F1_0, x) THEN F1_0 ELSE x

HarmonicSat(hsv, i) == ClampedInto(F0_3, FSub(hsv.s, FMul(F0_1, FInt(i))))

HarmonicVal(hsv, i) == ClampedInto(F0_4, FAdd(hsv.v, FMul(F0_05, FInt(i))))

HarmonicHex(hsv, i) ==
  HsvHex(FMod1(FAdd(hsv.h, FDiv(FInt(i * 15), FInt(360)))),
         HarmonicSat(hsv, i), HarmonicVal(hsv, i))

(* count colours, the base first, element i built as C9 says, with the
   saturation and value it is built from within [0.3, 1] and [0.4, 1] *)
HarmonicList(n) ==
  /\ ret.ok
  /\ Len(ret.val) = n
  /\ ret.val[1] = args[1]
  /\ \A i \in 1..(n - 1) :
       /\ ret.val[i + 1] = HarmonicHex(to_hsv(BaseColor(args[1])), i)
       /\ FLe(F0_3, HarmonicSat(to_hsv(BaseColor(args[1])), i))
       /\ FLe(HarmonicSat(to_hsv(BaseColor(args[1])), i), F1_0)
       /\ FLe(F0_4, HarmonicVal(to_hsv(BaseColor(args[1])), i))
       /\ FLe(HarmonicVal(to_hsv(BaseColor(args[1])), i), F1_0)

(* the returned colour c has value max / 255 >= 0.4 *)
ValueAtLeast04(c) == 5 * MaxC(c) >= 2 * 255

(* the returned colour c has saturation (max - min) / max >= pct / 100 *)
SaturationAtLeast(c, pct) == 100 * (MaxC(c) - MinC(c)) >= pct * MaxC(c)

(* C9: for every valid base with HSV (h, s, v) and count >= 1,
   generar_armonico returns count colours with element 0 equal to the base,
   and for i = 1..count-1 element i is the hex of hue (h + i * 15deg) mod 1,
   saturation s - 0.1 * i clamped into [0.3, 1.0] and value v + 0.05 * i
   clamped into [0.4, 1.0]; every generated element (index >= 1), decoded
   from its hex, has value >= 0.4 and saturation >= 0.29. *)
C9_Harmonic ==
  (/\ op = <<"generar_armonico">>
   /\ ValidHex(args[1])
   /\ CountGiven(2, DefaultArmonico) >= 1) =>
    /\ HarmonicList(CountGiven(2, DefaultArmonico))
    /\ \A i \in 2..Len(ret.val) :
         /\ ValueAtLeast04(Decoded(ret.val[i]))
         /\ SaturationAtLeast(Decoded(ret.val[i]), 29)

(* an element built with saturation 0.3 whose hex has saturation 31 / 105 *)
C9_Witness ==
  /\ op = <<"generar_armonico">>
  /\ args = <<<<"#", "5", "D", "4", "C", "5", "B">>, 3>>
  /\ ret.val = <<args[1],
                 <<"#", "6", "9", "4", "A", "5", "E">>,
                 <<"#", "7", "6", "5", "2", "6", "0">>>>

(* C9 as stated: every generated element has saturation >= 0.3 and
   value >= 0.4 *)
C9_AsStated ==
  (/\ op = <<"generar_armonico">>
   /\ ValidHex(args[1])
   /\ CountGiven(2, DefaultArmonico) >= 1) =>
    /\ HarmonicList(CountGiven(2, DefaultArmonico))
    /\ \A i \in 2..Len(ret.val) :
         /\ ValueAtLeast04(Decoded(ret.val[i]))
         /\ SaturationAtLeast(Decoded(ret.val[i]), 30)

(* t is the token name in some mix of upper and lower case *)
Recognized(t, name) ==
  /\ Len(t) = Len(name)
  /\ \A i \in 1..Len(name) :
       \E k \in 1..26 :
         name[i] = UpperLetters[k] /\ t[i] \in {UpperLetters[k], LowerLetters[k]}

(* C10: generar_esquema returns, for each of the six tokens in any mix of
   case, exactly what the corresponding generator returns for the same base
   and count, and for any other token fails with the unknown-scheme error,
   an error distinct from the invalid-hex-format error. *)
C10_Dispatch ==
  op = <<"generar_esquema">> =>
    IF Recognized(args[1], COMPLEMENTARIO)
      THEN ret = generar_complementario(args[2])
    ELSE IF Recognized(args[1], ANALOGO)
      THEN ret = generar_analogo(args[2], CountGiven(3, DefaultEsquema))
    ELSE IF Recognized(args[1], TRIADICO)
      THEN ret = generar_triadico(args[2])
    ELSE IF Recognized(args[1], TETRADICO)
      THEN ret = generar_tetradico(args[2])
    ELSE IF Recognized(args[1], MONOCROMATICO)
      THEN ret = generar_monocromatico(args[2], CountGiven(3, DefaultEsquema))
    ELSE IF Recognized(args[1], ARMONICO)
      THEN ret = generar_armonico(args[2], CountGiven(3, DefaultEsquema))
    ELSE /\ ~ret.ok
         /\ ret.exc.msg = InvalidScheme.exc.msg
         /\ ret.exc.type # InvalidHexFormat.exc.type

(* C11: for every valid base and every count <= 1, zero and negative values
   included, generar_analogo and generar_armonico return a list of one
   element, the base string. *)
C11_SingleElement ==
  (/\ op \in {<<"generar_analogo">>, <<"generar_armonico">>}
   /\ ValidHex(args[1])
   /\ Len(args) = 2
   /\ args[2] <= 1) =>
    ret = Ok(<<args[1]>>)

C11_Witness ==
  /\ op = <<"generar_armonico">>
  /\ args = <<<<"#", "3", "4", "9", "8", "D", "B">>, -1>>
  /\ ret.val = <<args[1]>>

(* the token selects a generator that takes the count *)
TakesCount(t) ==
  Recognized(t, ANALOGO) \/ Recognized(t, MONOCROMATICO)
    \/ Recognized(t, ARMONICO)

(* C12: for a zero or negative count and a valid base, generar_analogo,
   generar_monocromatico and generar_armonico, called directly or through
   generar_esquema, do not raise and return the one-element result they
   return for count = 1. *)
C12_ClampedToOne ==
  /\ (/\ op = <<"generar_analogo">>
      /\ ValidHex(args[1])
      /\ CountGiven(2, DefaultAnalogo) <= 0) =>
       ret.ok /\ ret = generar_analogo(args[1], 1)
  /\ (/\ op = <<"generar_monocromatico">>
      /\ ValidHex(args[1])
      /\ CountGiven(2, DefaultMonocromatico) <= 0) =>
       ret.ok /\ ret = generar_monocromatico(args[1], 1)
  /\ (/\ op = <<"generar_armonico">>
      /\ ValidHex(args[1])
      /\ CountGiven(2, DefaultArmonico) <= 0) =>
       ret.ok /\ ret = generar_armonico(args[1], 1)
  /\ (/\ op = <<"generar_esquema">>
      /\ TakesCount(args[1])
      /\ ValidHex(args[2])
      /\ CountGiven(3, DefaultEsquema) <= 0) =>
       ret.ok /\ ret = generar_esquema(args[1], args[2], 1)

(* C13: for all pairs of valid hex colours a and b, calcular_contraste(a, b)
   returns a number and it equals calcular_contraste(b, a). *)
C13_Symmetric ==
  (op = <<"calcular_contraste">> /\ ValidHex(args[1]) /\ ValidHex(args[2])) =>
    /\ ret.ok
    /\ ret = calcular_contraste(args[2], args[1])

(* the darker colour is the first argument and the two differ *)
C13_Witness ==
  /\ op = <<"calcular_contraste">>
  /\ args = << <<"#", "0", "0", "0", "0", "0", "0">>,
               <<"#", "3", "4", "9", "8", "D", "B">> >>
  /\ ret.ok
  /\ FLt(F1_0, ret.val)

\* 21.0 = 0x1.5000000000000p+4
TwentyOne == [s |-> 0, h |-> 44040192, l |-> 0, e |-> -48]

Black == [r |-> 0, g |-> 0, b |-> 0]

White == [r |-> 255, g |-> 255, b |-> 255]

(* C14: for all pairs of valid hex colours the result of calcular_contraste
   is in [1.0, 21.0]; it is exactly 1.0 when both arguments are the same
   colour, and it is 21.0, the maximum, for black against white. *)
C14_Range ==
  (op = <<"calcular_contraste">> /\ ValidHex(args[1]) /\ ValidHex(args[2])) =>
    /\ ret.ok
    /\ FLe(F1_0, ret.val)
    /\ FLe(ret.val, TwentyOne)
    /\ BaseColor(args[1]) = BaseColor(args[2]) => ret.val = F1_0
    /\ {BaseColor(args[1]), BaseColor(args[2])} = {Black, White}
         => ret.val = TwentyOne

C14_Witness ==
  /\ op = <<"calcular_contraste">>
  /\ args = << <<"#", "0", "0", "0", "0", "0", "0">>,
               <<"f", "f", "f", "f", "f", "f">> >>
  /\ ret.val = TwentyOne

(* 299 R + 587 G + 114 B of a colour *)
WeightedSum(c) == 299 * c.r + 587 * c.g + 114 * c.b

(* C15: for every valid hex, es_color_claro is true exactly when
   0.299 R + 0.587 G + 0.114 B > 127.5, that is 299 R + 587 G + 114 B >
   127500; a colour whose weighted sum equals the midpoint is dark. *)
C15_LightAboveMidpoint ==
  (op = <<"es_color_claro">> /\ ValidHex(args[1])) =>
    /\ ret.ok
    /\ ret.val = (WeightedSum(BaseColor(args[1])) > 127500)

(* C16: for every valid background hex, sugerir_color_texto returns
   '#000000' if es_color_claro(background) is true and '#FFFFFF'
   otherwise. *)
C16_TextColor ==
  (op = <<"sugerir_color_texto">> /\ ValidHex(args[1])) =>
    /\ ret.ok
    /\ es_color_claro(args[1]).val
         => ret.val = <<"#", "0", "0", "0", "0", "0", "0">>
    /\ ~es_color_claro(args[1]).val
         => ret.val = <<"#", "F", "F", "F", "F", "F", "F">>

C16_Witness ==
  /\ op = <<"sugerir_color_texto">>
  /\ args = << <<"f", "f", "f", "f", "f", "f">> >>
  /\ ret.val = <<"#", "0", "0", "0", "0", "0", "0">>

(* the call failed with the error from_hex raises *)
Rejected == ~ret.ok /\ ret.exc.type = InvalidHexFormat.exc.type

RecognizedScheme(t) ==
  \/ Recognized(t, COMPLEMENTARIO) \/ Recognized(t, ANALOGO)
  \/ Recognized(t, TRIADICO) \/ Recognized(t, TETRADICO)
  \/ Recognized(t, MONOCROMATICO) \/ Recognized(t, ARMONICO)

(* C17: each of the six generators, generar_esquema with a recognized
   scheme, calcular_contraste (for either argument), es_color_claro and
   sugerir_color_texto fails with the invalid-format error when the hex
   string it is given is malformed, and returns no value. *)
C17_MalformedRejected ==
  /\ (/\ op \in {<<"generar_complementario">>, <<"generar_analogo">>,
                  <<"generar_triadico">>, <<"generar_tetradico">>,
                  <<"generar_monocromatico">>, <<"generar_armonico">>,
                  <<"es_color_claro">>, <<"sugerir_color_texto">>}
      /\ ~ValidHex(args[1])) => Rejected
  /\ (/\ op = <<"generar_esquema">>
      /\ RecognizedScheme(args[1])
      /\ ~ValidHex(args[2])) => Rejected
  /\ (/\ op = <<"calcular_contraste">>
      /\ ~ValidHex(args[1]) \/ ~ValidHex(args[2])) => Rejected

(* C18: a step that makes or ends a call of a generator, of generar_esquema
   or of an analysis method leaves the saved combinations and the id counter
   unchanged, whether the call returns or raises; and a call with the same
   arguments as a call made earlier has the same result, whatever ran in
   between. *)
C18_Pure ==
  /\ [][((op # <<>> /\ op[1] \in PureOps)
          \/ (op' # <<>> /\ op'[1] \in PureOps)) => UNCHANGED mgr]_vars
  /\ []((op # <<>> /\ kept.op = op /\ kept.args = args) => ret = kept.ret)

(* the same call as one made before the combination was saved *)
C18_Witness ==
  /\ op = <<"generar_triadico">>
  /\ kept.op = op
  /\ kept.args = args
  /\ kept.ret = ret
  /\ ret.ok
  /\ DOMAIN combinaciones_guardadas # {}

(* C19: with the count omitted each count-taking scheme runs with its own
   default, called directly or through generar_esquema: analogous 3,
   harmonic 3, monochromatic 4; generar_esquema('monocromatico', base)
   returns what generar_monocromatico(base) returns. *)
C19_OwnDefaults ==
  /\ (op = <<"generar_analogo">> /\ Len(args) = 1 /\ ValidHex(args[1])) =>
       ret.ok /\ Len(ret.val) = 3
  /\ (op = <<"generar_armonico">> /\ Len(args) = 1 /\ ValidHex(args[1])) =>
       ret.ok /\ Len(ret.val) = 3
  /\ (op = <<"generar_monocromatico">> /\ Len(args) = 1
        /\ ValidHex(args[1])) =>
       ret.ok /\ Len(ret.val) = 4
  /\ (op = <<"generar_esquema">> /\ Len(args) = 2 /\ ValidHex(args[2])) =>
       /\ Recognized(args[1], ANALOGO) =>
            ret = generar_analogo(args[2], DefaultAnalogo)
       /\ Recognized(args[1], ARMONICO) =>
            ret = generar_armonico(args[2], DefaultArmonico)
       /\ Recognized(args[1], MONOCROMATICO) =>
            ret = generar_monocromatico(args[2], DefaultMonocromatico)

(* '#' followed by exactly 6 uppercase hexadecimal digits *)
Canonical(x) ==
  /\ Len(x) = 7
  /\ x[1] = "#"
  /\ \A i \in 2..7 :
       x[i] \in {"0", "1", "2", "3", "4", "5", "6", "7", "8", "9",
                 "A", "B", "C", "D", "E", "F"}

(* the list l from its element number k on is canonical *)
CanonicalFrom(l, k) == \A i \in k..Len(l) : Canonical(l[i])

(* C20: in complementary, analogous, triadic, tetradic and harmonic results
   the first element is the input string as given, and every other element
   of any scheme, and every element of a monochromatic result, is '#'
   followed by exactly 6 uppercase hexadecimal digits. *)
C20_VerbatimAndCanonical ==
  /\ (/\ op \in {<<"generar_complementario">>, <<"generar_analogo">>,
                  <<"generar_triadico">>, <<"generar_tetradico">>,
                  <<"generar_armonico">>}
      /\ ret.ok) =>
       ret.val[1] = args[1] /\ CanonicalFrom(ret.val, 2)
  /\ (op = <<"generar_monocromatico">> /\ ret.ok) =>
       CanonicalFrom(ret.val, 1)
  /\ (op = <<"generar_esquema">> /\ ret.ok) =>
       IF Recognized(args[1], MONOCROMATICO) THEN CanonicalFrom(ret.val, 1)
       ELSE ret.val[1] = args[2] /\ CanonicalFrom(ret.val, 2)

(* a lowercase base without '#' and a generated colour with a channel
   below 16 *)
C20_Witness ==
  /\ op = <<"generar_tetradico">>
  /\ args[1] = <<"f", "f", "0", "0", "0", "0">>
  /\ ret.val = <<args[1],
                 <<"#", "7", "F", "F", "F", "0", "0">>,
                 <<"#", "0", "0", "F", "F", "F", "F">>,
                 <<"#", "7", "F", "0", "0", "F", "F">>>>

----------------------------------------------------------------------------
(* Claims C21..C30 *)

(* the hex of a colour rebuilt from its own HLS tuple *)
OwnHlsHex(hls) == HlsHex(hls.h, hls.l, hls.s)

(* colours a and b differ by at most 1 in each channel *)
WithinOne(a, b) ==
  /\ Abs(a.r - b.r) <= 1
  /\ Abs(a.g - b.g) <= 1
  /\ Abs(a.b - b.b) <= 1

(* C21: for every valid base, generar_monocromatico(base, 1) returns exactly
   one colour, built from the base's own HLS hue, lightness and saturation
   (the base lightness, not 0.2), and that colour equals the base colour
   within 1 per RGB channel. *)
C21_SingleFromBase ==
  (/\ op = <<"generar_monocromatico">>
   /\ ValidHex(args[1])
   /\ CountGiven(2, DefaultMonocromatico) = 1) =>
    /\ ret.ok
    /\ Len(ret.val) = 1
    /\ ret.val[1] = OwnHlsHex(to_hls(BaseColor(args[1])))
    /\ WithinOne(Decoded(ret.val[1]), BaseColor(args[1]))

(* a base whose single shade differs from it by one unit in a channel *)
C21_Witness ==
  /\ op = <<"generar_monocromatico">>
  /\ args = <<<<"#", "3", "4", "9", "8", "D", "B">>, 1>>
  /\ ret.val = << <<"#", "3", "3", "9", "7", "D", "B">> >>

(* the hex of hue (h + grados / 360) mod 1 with the saturation and value of
   hsv *)
TurnedHex(hsv, grados) ==
  HsvHex(FMod1(FAdd(hsv.h, FDiv(FInt(grados), FInt(360)))), hsv.s, hsv.v)

(* C22: for every valid base with HSV (h, s, v), elements 1 and 2 of
   generar_triadico are the hex of hues (h + 120 degrees) mod 1 and
   (h + 240 degrees) mod 1, elements 1..3 of generar_tetradico are the hex of
   hues h + 90, h + 180 and h + 270 degrees mod 1, all with the base's s and
   v, and element 2 of generar_tetradico equals element 1 of
   generar_complementario of the same base (elements counted from 0). *)
C22_TurnedHues ==
  /\ (op = <<"generar_triadico">> /\ ValidHex(args[1])) =>
       /\ ret.ok
       /\ Len(ret.val) = 3
       /\ \A i \in 1..2 :
            ret.val[i + 1] = TurnedHex(to_hsv(BaseColor(args[1])), 120 * i)
  /\ (op = <<"generar_tetradico">> /\ ValidHex(args[1])) =>
       /\ ret.ok
       /\ Len(ret.val) = 4
       /\ \A i \in 1..3 :
            ret.val[i + 1] = TurnedHex(to_hsv(BaseColor(args[1])), 90 * i)
       /\ ret.val[3] = generar_complementario(args[1]).val[2]

(* the four corners of pure red *)
C22_Witness ==
  /\ op = <<"generar_tetradico">>
  /\ args[1] = <<"f", "f", "0", "0", "0", "0">>
  /\ ret.val = << <<"f", "f", "0", "0", "0", "0">>,
                  <<"#", "7", "F", "F", "F", "0", "0">>,
                  <<"#", "0", "0", "F", "F", "F", "F">>,
                  <<"#", "7", "F", "0", "0", "F", "F">> >>

(* channel k of a colour *)
ChannelOf(c, k) == IF k = 1 THEN c.r ELSE IF k = 2 THEN c.g ELSE c.b

InUnit(c) == FLe(F0_0, c) /\ FLe(c, F1_0)

(* n is the integer part of the binary64 product c * 255 *)
FloorOfProduct(n, c) ==
  /\ n \in 0..255
  /\ FLe(FInt(n), FMul(c, F255_0))
  /\ FLt(FMul(c, F255_0), FInt(n + 1))

(* 255 times a mantissa given in 14-bit limbs, exactly: four base-2^14
   digits, lowest first, and the last carry *)
Times255(x) == Carry(<<255 * x[1], 255 * x[2], 255 * x[3], 255 * x[4]>>, 0)

(* the number with base-2^14 digits d (lowest first) is at least n * 2^k,
   for n in 0..255 *)
RECURSIVE AtLeastShifted(_, _, _)
AtLeastShifted(d, n, k) ==
  IF n = 0 THEN TRUE
  ELSE IF d = <<>> THEN FALSE
  ELSE IF k >= 14 THEN AtLeastShifted(Tail(d), n, k - 14)
  ELSE \/ \E i \in 3..Len(d) : d[i] # 0
       \/ d[1] + (IF Len(d) >= 2 THEN d[2] * 2^14 ELSE 0) >= n * 2^k

(* n <= c * 255 in the reals, for a float c of [0, 1] and n in 0..255 *)
ExactAtLeast(c, n) ==
  IF FIsZero(c) THEN n = 0
  ELSE AtLeastShifted(Times255(Limbs14(c)), n, -c.e)

(* what C23 says of channel n produced from the float c, the product taken
   as the code computes it *)
Truncated(n, c) == InUnit(c) => FloorOfProduct(n, c)

(* the same with the product taken in the reals *)
TruncatedExactly(n, c) ==
  InUnit(c) => (FloorOfProduct(n, c) /\ ExactAtLeast(c, n))

(* C23: from_hsv and from_hls turn each resulting channel c of [0, 1] into
   the integer part of the binary64 product c * 255 (truncation, never
   round-to-nearest): every produced channel is an integer in 0..255 and is
   never larger than that product, which is the exact c * 255 rounded to the
   nearest float. *)
C23_Truncated ==
  /\ op = <<"from_hsv">> =>
       \A k \in 1..3 :
         Truncated(ChannelOf(ret.val, k),
                   hsv_to_rgb(args[1], args[2], args[3])[k])
  /\ op = <<"from_hls">> =>
       \A k \in 1..3 :
         Truncated(ChannelOf(ret.val, k),
                   hls_to_rgb(args[1], args[2], args[3])[k])

(* a third of full value: the product 0.333... * 255 rounds to 85.0 *)
C23_Witness ==
  /\ op = <<"from_hsv">>
  /\ args = <<F0_0, F0_0, ONE_THIRD>>
  /\ ret.val = ColorRGB(85, 85, 85)

(* C23 as stated: no produced channel is larger than the exact value
   c * 255 *)
C23_AsStated ==
  /\ op = <<"from_hsv">> =>
       \A k \in 1..3 :
         TruncatedExactly(ChannelOf(ret.val, k),
                          hsv_to_rgb(args[1], args[2], args[3])[k])
  /\ op = <<"from_hls">> =>
       \A k \in 1..3 :
         TruncatedExactly(ChannelOf(ret.val, k),
                          hls_to_rgb(args[1], args[2], args[3])[k])

(* every stored combination is stored under its own id, below the counter *)
IdsBelowCounter ==
  \A k \in DOMAIN combinaciones_guardadas :
    /\ combinaciones_guardadas[k].id_combinacion = k
    /\ k < next_combinacion_id

(* C24: after any sequence of guardar_combinacion, actualizar_combinacion,
   marcar_favorito, eliminar_combinacion and cargar_datos, every stored
   combination's id is strictly less than the id counter and equals the key
   it is stored under, guardar_combinacion never stores over an existing
   combination, and it never returns the id of a combination that
   eliminar_combinacion deleted. *)
C24_FreshIds ==
  /\ []IdsBelowCounter
  /\ [][(op' = <<"guardar_combinacion">>) =>
          (next_combinacion_id \notin DOMAIN combinaciones_guardadas)]_vars
  /\ []((op = <<"guardar_combinacion">>
          /\ kept.op = <<"eliminar_combinacion">>) =>
           ret.val.id_combinacion # kept.args[1])

(* combination b is combination a with nombre, descripcion and favorito
   taken from kw where kw gives them, and nothing else changed *)
OnlyAllowedChanged(a, b, kw) ==
  /\ b.id_combinacion = a.id_combinacion
  /\ b.tipo_esquema = a.tipo_esquema
  /\ b.colores_hex = a.colores_hex
  /\ b.fecha_creacion = a.fecha_creacion
  /\ b.nombre = (IF "nombre" \in DOMAIN kw THEN kw.nombre ELSE a.nombre)
  /\ b.descripcion =
       (IF "descripcion" \in DOMAIN kw THEN kw.descripcion ELSE a.descripcion)
  /\ b.favorito =
       (IF "favorito" \in DOMAIN kw THEN kw.favorito ELSE a.favorito)

(* what C25 says of a call actualizar_combinacion(id, **kw) that took the
   stored combinations from antes to despues and returned r *)
UpdatedInPlace(antes, despues, id, kw, r) ==
  IF id \in DOMAIN antes
  THEN /\ r = Ok(TRUE)
       /\ DOMAIN despues = DOMAIN antes
       /\ OnlyAllowedChanged(antes[id], despues[id], kw)
       /\ \A k \in DOMAIN antes \ {id} : despues[k] = antes[k]
  ELSE r = Ok(FALSE) /\ despues = antes

(* C25: actualizar_combinacion changes only the nombre, descripcion and
   favorito fields of the addressed combination; its id, tipo_esquema,
   colores_hex and fecha_creacion, every other stored combination and the id
   counter stay unchanged; keys outside the allowed list are ignored; for an
   unknown id it returns False and changes nothing. *)
C25_OnlyAllowedFields ==
  [][(op' = <<"actualizar_combinacion">>) =>
       (/\ next_combinacion_id' = next_combinacion_id
        /\ UpdatedInPlace(combinaciones_guardadas, combinaciones_guardadas',
                          args'[1], args'[2], ret'))]_vars

(* one of two stored combinations renamed by a call that also gave a
   tipo_esquema, which is ignored *)
C25_Witness ==
  /\ op = <<"actualizar_combinacion">>
  /\ args = <<1, [nombre |-> "Invierno", tipo_esquema |-> "Otro"]>>
  /\ ret = Ok(TRUE)
  /\ DOMAIN combinaciones_guardadas = {1, 2}
  /\ combinaciones_guardadas[1].nombre = "Invierno"
  /\ combinaciones_guardadas[1].tipo_esquema = "Complementario"

(* the amounts of the first n entries of a purchase history, added in the
   order in which they were recorded *)
RECURSIVE SumaMontos(_, _)
SumaMontos(historial, n) ==
  IF n = 0 THEN F0_0
  ELSE FAdd(SumaMontos(historial, n - 1), historial[n].monto)

Consistent(c) ==
  /\ c.numero_pedidos = Len(c.historial_compras)
  /\ c.total_compras = SumaMontos(c.historial_compras, Len(c.historial_compras))
  /\ ~FLt(c.total_compras, F0_0)

(* C26: for every client, after any sequence of registrar_compra and other
   manager operations, numero_pedidos equals the length of
   historial_compras, total_compras equals the sum of the recorded amounts,
   and total_compras is never negative. *)
C26_TotalsMatchHistory == \A k \in DOMAIN clientes : Consistent(clientes[k])

(* two purchases of 0.1 and 0.2: the total is 0.30000000000000004 *)
C26_Witness ==
  /\ op = <<"registrar_compra">>
  /\ ret = Ok(TRUE)
  /\ clientes[1].numero_pedidos = 2
  /\ clientes[1].historial_compras[1].monto = F0_1
  /\ clientes[1].historial_compras[2].monto = F0_2
  /\ clientes[1].total_compras
       = [s |-> 0, h |-> 40265318, l |-> 53687092, e |-> -54]

SameHistory(a, b) ==
  /\ a.historial_compras = b.historial_compras
  /\ a.total_compras = b.total_compras
  /\ a.numero_pedidos = b.numero_pedidos

(* C27: registrar_compra with a negative amount for an existing client
   raises an error and leaves that client's history, total and order count
   unchanged; for an unknown client id it returns False without raising,
   even when the amount is negative, and changes no client. *)
C27_NegativeRejected ==
  [][(op' = <<"registrar_compra">>) =>
       IF args'[1] \in DOMAIN clientes
       THEN FLt(args'[3], F0_0) =>
              (/\ ~ret'.ok
               /\ args'[1] \in DOMAIN clientes'
               /\ SameHistory(clientes[args'[1]], clientes'[args'[1]]))
       ELSE ret' = Ok(FALSE) /\ clientes' = clientes]_vars

(* a negative amount for a client that does not exist *)
C27_Witness ==
  /\ op = <<"registrar_compra">>
  /\ args[1] \notin DOMAIN clientes
  /\ FLt(args[3], F0_0)
  /\ ret = Ok(FALSE)
  /\ clientes # <<>>

(* C28: every stored client has a non-empty, non-whitespace name after any
   sequence of agregar_cliente and actualizar_cliente calls: agregar_cliente
   rejects an empty or blank name with an error and stores nothing, and no
   later update makes a stored name empty. *)
C28_NamesNotBlank ==
  /\ [](\A k \in DOMAIN clientes : strip(clientes[k].nombre) # <<>>)
  /\ [][(op' = <<"agregar_cliente">> /\ strip(args'[1]) = <<>>) =>
          (~ret'.ok /\ clientes' = clientes)]_vars

(* the client id is in a list of clients *)
Figura(lista, id) == \E i \in 1..Len(lista) : lista[i].id_cliente = id

(* the queries that leave inactive clients out, put to the manager d *)
EnListados(d, n, id) ==
  \/ Figura(listar_clientes(d, n, TRUE), id)
  \/ Figura(obtener_mejores_clientes(d, n, DefaultLimite), id)
  \/ Figura(obtener_clientes_frecuentes(d, n, DefaultLimite), id)
  \/ Figura(obtener_clientes_por_preferencia_color(d, n, 7), id)
  \/ Figura(obtener_clientes_por_preferencia_diseno(d, n, 3), id)
  \/ Figura(obtener_clientes_por_tipo_bolsa(d, n, "Simple"), id)
  \/ Figura(obtener_clientes_por_tipo_bolsa(d, n, ""), id)

(* client id is kept as it was but for activo, and still counted *)
KeptButHidden(antes, despues, n, id) ==
  /\ obtener_cliente(despues, id).ok
  /\ obtener_cliente(despues, id).val # <<>>
  /\ obtener_cliente(despues, id).val.historial_compras
       = antes[id].historial_compras
  /\ obtener_cliente(despues, id).val.preferencias = antes[id].preferencias
  /\ obtener_total_clientes(despues).total = obtener_total_clientes(antes).total
  /\ ~EnListados(despues, n, id)

(* client id is back in the listings, the preference queries for the
   preferences it has *)
VisibleAgain(d, n, id) ==
  /\ Figura(listar_clientes(d, n, TRUE), id)
  /\ Len(listar_clientes(d, n, TRUE)) <= DefaultLimite =>
       /\ Figura(obtener_mejores_clientes(d, n, DefaultLimite), id)
       /\ Figura(obtener_clientes_frecuentes(d, n, DefaultLimite), id)
  /\ Figura(obtener_clientes_por_tipo_bolsa(
              d, n, d[id].preferencias.tipo_bolsa_preferido), id)
  /\ d[id].preferencias.colores_favoritos # <<>> =>
       Figura(obtener_clientes_por_preferencia_color(d, n, 7), id)
  /\ d[id].preferencias.disenos_favoritos # <<>> =>
       Figura(obtener_clientes_por_preferencia_diseno(d, n, 3), id)

CountsAddUp(d) ==
  obtener_total_clientes(d).total
    = obtener_total_clientes(d).activos + obtener_total_clientes(d).inactivos

(* C29: desactivar_cliente does not delete: after it the client is still
   returned by obtener_cliente with its history and preferences intact and
   still counts in obtener_total_clientes()['total'], but is absent from
   listar_clientes() (default), obtener_mejores_clientes,
   obtener_clientes_frecuentes and the preference queries;
   reactivar_cliente restores its visibility; and in every reachable state
   total = activos + inactivos. *)
C29_HiddenNotDeleted ==
  /\ []CountsAddUp(clientes)
  /\ [][(op' = <<"desactivar_cliente">> /\ args'[1] \in DOMAIN clientes) =>
          KeptButHidden(clientes, clientes', next_cliente_id', args'[1])]_vars
  /\ [][(op' = <<"reactivar_cliente">> /\ args'[1] \in DOMAIN clientes) =>
          VisibleAgain(clientes', next_cliente_id', args'[1])]_vars

(* a client with a purchase and a favourite colour, deactivated *)
C29_Witness ==
  /\ op = <<"desactivar_cliente">>
  /\ ret = Ok(TRUE)
  /\ ~clientes[1].activo
  /\ Len(clientes[1].historial_compras) = 1
  /\ clientes[1].preferencias.colores_favoritos = <<7>>
  /\ obtener_total_clientes(clientes) = [total |-> 1, activos |-> 0, inactivos |-> 1]
  /\ listar_clientes(clientes, next_cliente_id, TRUE) = <<>>

(* the object a caller has built is stored in the dict d *)
Stored(d, nuevo) == \E k \in DOMAIN d : d[k] = nuevo[1]

BothDone == \A t \in Hilos : hilos[t].pc = "listo"

(* C30: when two callers run guardar_combinacion (or agregar_cliente)
   concurrently on the same manager, in every interleaving of their steps
   the two calls receive distinct ids and both records are stored
   afterwards. *)
C30_DistinctIdsBothStored ==
  /\ (BothDone /\ hilos[1].llamada = "guardar_combinacion") =>
       /\ hilos[1].nuevo[1].id_combinacion # hilos[2].nuevo[1].id_combinacion
       /\ \A t \in Hilos : Stored(combinaciones_guardadas, hilos[t].nuevo)
  /\ (BothDone /\ hilos[1].llamada = "agregar_cliente") =>
       /\ hilos[1].nuevo[1].id_cliente # hilos[2].nuevo[1].id_cliente
       /\ \A t \in Hilos : Stored(clientes, hilos[t].nuevo)

====
